---- MODULE Spec2Model ----
(***************************************************************************)
(* Flow execution engine of LLMAgentCreator.                               *)
(*                                                                         *)
(* Two layers of the repository are modelled:                              *)
(*   - the session endpoints of backend/app/api/sessions.py, which drive   *)
(*     a flow graph through backend/app/services/agent_runtime.py          *)
(*     (process_node, extract_params_via_llm, safe_format);                *)
(*   - the node classes of backend/app/services/node.py, applied to        *)
(*     inputs drawn from bounded sets (specification NodeSpec).            *)
(*                                                                         *)
(* Texts are Python strings.  A template is a sequence of tokens: the      *)
(* structural characters "{", "}", ".", "[", "]", "'", " " and words that  *)
(* contain none of them; formatting yields the concatenated string.        *)
(***************************************************************************)
EXTENDS Integers, Sequences, FiniteSets, TLC

VARIABLES
    agent,        \* the Agent row: logic = [nodes, start_node]
    sessions,     \* Session rows, by id: current_node, conversation_id, last_user_input
    messages,     \* SessionMessage rows of each session, in insertion order
    node_output,  \* NodeOutput rows, in insertion order
    turns,        \* number of endpoint calls made so far
    last,         \* the last endpoint call: its inputs, the nodes it dispatched, its response
    call,         \* the last direct call of a node class (NodeSpec)
    knowledge,    \* KnowledgeNode and KnowledgeEmbedding rows, and the last service call
    requests      \* send_message requests on one session: what each loaded and committed

vars == <<agent, sessions, messages, node_output, turns, last, call, knowledge, requests>>

----------------------------------------------------------------------------
(* Python values *)

None == "None"

Truthy(s) == s # None /\ s # ""

PyStr(s) == [kind |-> "str", s |-> s, d |-> <<>>]
PyDict(d) == [kind |-> "dict", s |-> "", d |-> d]

RECURSIVE ReprItems(_, _)
ReprItems(d, keys) ==
    IF keys = {} THEN ""
    ELSE LET k == CHOOSE x \in keys : TRUE
             v == d[k]
             item == "'" \o k \o "': " \o
                     (IF v.kind = "str" THEN "'" \o v.s \o "'" ELSE "{...}")
         IN  IF keys = {k} THEN item ELSE item \o ", " \o ReprItems(d, keys \ {k})

\* str(value) as used by replacer
Str(v) == IF v.kind = "str" THEN v.s ELSE "{" \o ReprItems(v.d, DOMAIN v.d) \o "}"

RECURSIVE Join(_)
Join(seq) == IF seq = <<>> THEN "" ELSE Head(seq) \o Join(Tail(seq))

----------------------------------------------------------------------------
(* safe_format *)

Braces == {"{", "}"}
Separators == {".", "[", "]", "'"}
Whitespace == {" "}

\* str.strip() on a token sequence
RECURSIVE LStrip(_)
LStrip(e) == IF e # <<>> /\ Head(e) \in Whitespace THEN LStrip(Tail(e)) ELSE e

RECURSIVE RStrip(_)
RStrip(e) ==
    IF e # <<>> /\ e[Len(e)] \in Whitespace THEN RStrip(SubSeq(e, 1, Len(e) - 1)) ELSE e

Strip(e) == RStrip(LStrip(e))

\* re.split(r"[.\[\]']", path) followed by the removal of the empty parts
RECURSIVE SplitParts(_, _)
SplitParts(e, cur) ==
    LET done == IF cur = "" THEN <<>> ELSE <<cur>>
    IN  IF e = <<>> THEN done
        ELSE IF Head(e) \in Separators THEN done \o SplitParts(Tail(e), "")
        ELSE SplitParts(Tail(e), cur \o Head(e))

\* a descent that puts nothing in place of an absent key
RECURSIVE Walk_lenient(_, _)
Walk_lenient(parts, value) ==
    IF parts = <<>> THEN value
    ELSE IF value.kind = "dict"
         THEN Walk_lenient(Tail(parts),
                           IF Head(parts) \in DOMAIN value.d
                           THEN value.d[Head(parts)]
                           ELSE PyStr(""))
         ELSE PyStr("<invalid:" \o Head(parts) \o ">")

RECURSIVE Walk(_, _)
Walk(parts, value) ==
    IF parts = <<>> THEN value
    ELSE IF value.kind = "dict"
         THEN Walk(Tail(parts),
                   IF Head(parts) \in DOMAIN value.d
                   THEN value.d[Head(parts)]
                   ELSE PyStr("<missing:" \o Head(parts) \o ">"))
         ELSE PyStr("<invalid:" \o Head(parts) \o ">")

get_value(path, ctx) == Walk(SplitParts(path, ""), ctx)

\* a replacer that leaves the placeholder as written
replacer_verbatim(group, ctx) == "{" \o Join(group) \o "}"

replacer(group, ctx) == Str(get_value(Strip(group), ctx))

\* the pattern {([^{}]*)}, which also matches the empty braces
MatchEnd_empty(t, i) ==
    IF t[i] # "{" THEN 0
    ELSE LET ends == { j \in (i + 1)..Len(t) :
                         /\ t[j] = "}"
                         /\ \A k \in (i + 1)..(j - 1) : t[k] \notin Braces }
         IN  IF ends = {} THEN 0 ELSE CHOOSE j \in ends : TRUE

\* the index of the "}" closing a match of {([^{}]+)} that opens at i, or 0
MatchEnd(t, i) ==
    IF t[i] # "{" THEN 0
    ELSE LET ends == { j \in (i + 2)..Len(t) :
                         /\ t[j] = "}"
                         /\ \A k \in (i + 1)..(j - 1) : t[k] \notin Braces }
         IN  IF ends = {} THEN 0 ELSE CHOOSE j \in ends : TRUE

RECURSIVE Sub(_, _, _)
Sub(t, i, ctx) ==
    IF i > Len(t) THEN ""
    ELSE LET j == MatchEnd(t, i)
         IN  IF j > 0
             THEN replacer(SubSeq(t, i + 1, j - 1), ctx) \o Sub(t, j + 1, ctx)
             ELSE t[i] \o Sub(t, i + 1, ctx)

safe_format(template, context) == Sub(template, 1, context)

----------------------------------------------------------------------------
(* Agent.logic: the flow graph *)

AbsentKey == <<"%absent%">>     \* a template key the node's JSON object does not hold
NullText == <<"%null%">>        \* a template key that holds null
Absent == "%absent%"            \* a string key the node's JSON object does not hold

NoParams == <<>>
NoBranches == <<>>

NodeDecl(id, type) ==
    [id |-> id, type |-> type, text |-> <<>>, forced_text |-> AbsentKey,
     next |-> None, action |-> "act", url |-> "http://hook",
     params |-> NoParams, missing_param_message |-> None,
     on_success |-> None, on_failure |-> None,
     branches |-> NoBranches, default_branch |-> None,
     reference_node_id |-> None, connected_nodes |-> <<>>]

Forced(id, forced_text, next) ==
    [NodeDecl(id, "forced_message") EXCEPT !.forced_text = forced_text, !.next = next]

Wait(id, next) == [NodeDecl(id, "wait_for_user_input") EXCEPT !.next = next]

Webhook(id, params, mpm, on_success, on_failure) ==
    [NodeDecl(id, "webhook") EXCEPT !.params = params, !.missing_param_message = mpm,
                                    !.on_success = on_success, !.on_failure = on_failure]

Conditional(id, branches, default_branch) ==
    [NodeDecl(id, "conditional_llm") EXCEPT !.branches = branches,
                                            !.default_branch = default_branch]

Knowledge(id, next) == [NodeDecl(id, "knowledge") EXCEPT !.next = next]

LLMRequest(id, next) == [NodeDecl(id, "llm_request") EXCEPT !.next = next]

\* nodes = {n["id"]: n for n in logic.get("nodes", [])}
InNodes(nodes, id) == \E i \in 1..Len(nodes) : nodes[i].id = id

\* nodes[id]: of two declarations with one id the dict keeps the later
Node(nodes, id) ==
    nodes[CHOOSE i \in 1..Len(nodes) :
            /\ nodes[i].id = id
            /\ \A j \in (i + 1)..Len(nodes) : nodes[j].id # id]

\* next(iter(nodes))
FirstKey(nodes) == nodes[1].id

----------------------------------------------------------------------------
(* Collaborators.  What the LLM, the webhook endpoint and the knowledge     *)
(* search answer is not decided by the program: every call draws one of    *)
(* the outcomes below.                                                     *)

\* message.content of the completion: None, or a text that is either a JSON
\* object (obj) or any other text (chars)
NoReply == [kind |-> "none", chars |-> <<>>, obj |-> <<>>]
TextReply(chars) == [kind |-> "text", chars |-> chars, obj |-> <<>>]
ObjectReply(obj) == [kind |-> "object", chars |-> <<>>, obj |-> obj]

LLMAnswers(reply) == [raises |-> FALSE, reply |-> reply]
LLMRaises == [raises |-> TRUE, reply |-> NoReply]

chat_with_agent(prompt, voice_id, conversation_id, llm) ==
    [raises |-> llm.raises,
     reply |-> llm.reply,
     conversation_id |-> IF Truthy(conversation_id) THEN conversation_id
                         ELSE "local-memory"]

\* requests.post(url, json=payload, timeout=5) and the decoding of the body
HookAnswers(status, body) == [raises |-> FALSE, status |-> status, body |-> body]
HookRaises(error) == [raises |-> TRUE, status |-> 0, body |-> error]

call_webhook(url, payload, hook) == hook

\* the texts a knowledge search finds, joined, or the search failing
KBFinds(text) == [raises |-> FALSE, text |-> text]
KBRaises == [raises |-> TRUE, text |-> ""]

\* no collaborator answers: a call made under Quiet raises
Quiet == [llm |-> LLMRaises, hook |-> HookRaises("unreachable"), kb |-> KBRaises]

\* json.loads(reply) followed by .items(): succeeds on a JSON object only
JsonObject(reply) == reply.kind = "object"

JNull == None

Digits == <<"0", "1", "2", "3", "4", "5", "6", "7", "8", "9">>
IsDigit(c) == \E i \in 1..Len(Digits) : Digits[i] = c
DigitVal(c) == (CHOOSE i \in 1..Len(Digits) : Digits[i] = c) - 1

RECURSIVE Decimal(_)
Decimal(ds) ==
    IF ds = <<>> THEN 0 ELSE 10 * Decimal(SubSeq(ds, 1, Len(ds) - 1)) + DigitVal(ds[Len(ds)])

Unsigned(s) == IF s # <<>> /\ Head(s) \in {"+", "-"} THEN Tail(s) ELSE s

\* int(choice) raises ValueError unless choice is an optional sign and digits
IsInt(s) ==
    LET ds == Unsigned(Strip(s))
    IN  ds # <<>> /\ \A i \in 1..Len(ds) : IsDigit(ds[i])

IntOf(s) ==
    LET t == Strip(s)
    IN  IF t # <<>> /\ Head(t) = "-" THEN 0 - Decimal(Unsigned(t)) ELSE Decimal(Unsigned(t))

----------------------------------------------------------------------------
(* agent_runtime.extract_params_via_llm *)

\* the keys of a dict comprehension over a list, in insertion order
RECURSIVE Keys(_)
Keys(names) ==
    IF names = <<>> THEN <<>>
    ELSE LET rest == Keys(SubSeq(names, 1, Len(names) - 1))
             n == names[Len(names)]
         IN  IF \E i \in 1..Len(rest) : rest[i] = n THEN rest ELSE Append(rest, n)

Names(ps) == [i \in 1..Len(ps) |-> ps[i].name]
IsFixed(p) == Truthy(p.value)
IsDynamic(p) == ~Truthy(p.value)

\* the value a dict comprehension keeps for a key: the last one
LastWith(ps, name) ==
    ps[CHOOSE i \in 1..Len(ps) :
         ps[i].name = name /\ \A j \in (i + 1)..Len(ps) : ps[j].name # name]

fixed_params(params) ==
    LET ps == SelectSeq(params, IsFixed)
    IN  [n \in {ps[i].name : i \in 1..Len(ps)} |-> LastWith(ps, n).value]

dynamic_params(params) == Keys(Names(SelectSeq(params, IsDynamic)))

\* an extraction that keeps the keys whose value is null
found_dynamic_with_nulls(reply) == IF JsonObject(reply) THEN reply.obj ELSE <<>>

found_dynamic(reply) ==
    IF JsonObject(reply)
    THEN [k \in {k \in DOMAIN reply.obj : reply.obj[k] # JNull} |-> reply.obj[k]]
    ELSE <<>>

IsMissing(found, name) == name \notin DOMAIN found

missing_of(params, found) ==
    LET dyn == dynamic_params(params)
        RECURSIVE Pick(_)
        Pick(ns) == IF ns = <<>> THEN <<>>
                    ELSE IF IsMissing(found, Head(ns)) THEN <<Head(ns)>> \o Pick(Tail(ns))
                    ELSE Pick(Tail(ns))
    IN  Pick(dyn)

\* [raised, found_params, missing, conversation_id, llm_calls]
extract_params_via_llm(user_input, params, system_prompt, voice_id, conversation_id, llm) ==
    IF params = <<>>
    THEN [raised |-> FALSE, found_params |-> <<>>, missing |-> <<>>,
          conversation_id |-> conversation_id, llm_calls |-> 0]
    ELSE IF dynamic_params(params) = <<>>
    THEN [raised |-> FALSE, found_params |-> fixed_params(params), missing |-> <<>>,
          conversation_id |-> conversation_id, llm_calls |-> 0]
    ELSE LET response == chat_with_agent("extract", voice_id, conversation_id, llm)
             found == found_dynamic(response.reply)
         IN  IF response.raises
             THEN [raised |-> TRUE, found_params |-> <<>>, missing |-> <<>>,
                   conversation_id |-> conversation_id, llm_calls |-> 1]
             ELSE [raised |-> FALSE, found_params |-> found @@ fixed_params(params),
                   missing |-> missing_of(params, found),
                   conversation_id |-> response.conversation_id, llm_calls |-> 1]

----------------------------------------------------------------------------
(* agent_runtime.process_node *)

NoAction == [name |-> None, missing_params |-> <<>>]

\* what a call of process_node comes to: a result dict, the value None
\* (no branch of process_node returned), or an exception leaving the call
Result(reply, next_node, conversation_id) ==
    [kind |-> "result", reply |-> reply, action |-> NoAction, next_node |-> next_node,
     conversation_id |-> conversation_id, llm_calls |-> 0, hook_calls |-> 0]

ReturnsNone == [Result("", None, None) EXCEPT !.kind = "none"]
Raises(llm_calls) == [Result("", None, None) EXCEPT !.kind = "raise", !.llm_calls = llm_calls]

\* str(result)[:200] and the ellipsis that follows a longer result
ReplyLimit == 200
Shown(text) == IF Len(text) > ReplyLimit THEN SubSeq(text, 1, ReplyLimit) \o "..." ELSE text

DefaultForcedText == <<"Forced", " ", "message">>

process_message(node, user_input, conversation_id) ==
    Result(safe_format(node.text, user_input), node.next, conversation_id)

forced_template(node) ==
    IF node.forced_text # AbsentKey THEN node.forced_text
    ELSE IF node.text # AbsentKey THEN node.text
    ELSE DefaultForcedText

\* re.sub on a template that is None raises TypeError
process_forced_message(node, user_input, conversation_id) ==
    IF forced_template(node) = NullText THEN Raises(0)
    ELSE Result(safe_format(forced_template(node), user_input), node.next, conversation_id)

\* node.get("missing_param_message", None) or the default text
missing_reply(node) ==
    IF node.missing_param_message # Absent /\ Truthy(node.missing_param_message)
    THEN node.missing_param_message
    ELSE "Not enough data"

\* a missing-parameter result that moves on to on_success
webhook_missing_advances(node, missing, conversation_id) ==
    [Result(missing_reply(node), node.on_success, conversation_id) EXCEPT
        !.action = [name |-> node.action, missing_params |-> missing]]

webhook_missing(node, missing, conversation_id) ==
    [Result(missing_reply(node), node.id, conversation_id) EXCEPT
        !.action = [name |-> node.action, missing_params |-> missing]]

webhook_called(node, found_params, conversation_id, hook) ==
    LET r == call_webhook(node.url, found_params, hook)
    IN  IF r.raises
        THEN Result("Error calling " \o node.action \o ": " \o r.body,
                    node.on_failure, conversation_id)
        ELSE Result("Webhook " \o node.action \o " executed successfully: " \o Shown(r.body),
                    node.on_success, conversation_id)

process_webhook(node, user_input, system_prompt, voice_id, conversation_id, llm, hook) ==
    LET x == extract_params_via_llm(user_input, node.params, system_prompt, voice_id,
                                    conversation_id, llm)
    IN  IF x.raised THEN Raises(x.llm_calls)
        ELSE IF x.missing # <<>>
        THEN [webhook_missing(node, x.missing, x.conversation_id) EXCEPT
                 !.llm_calls = x.llm_calls]
        ELSE [webhook_called(node, x.found_params, x.conversation_id, hook) EXCEPT
                 !.llm_calls = x.llm_calls, !.hook_calls = 1]

\* a choice without the lower bound: branches[choice_num - 1] wraps around for
\* 0 and the negative numbers
choose_branch_wrapping(branches, default_branch, choice) ==
    IF IsInt(choice) /\ IntOf(choice) <= Len(branches) /\ IntOf(choice) > 0 - Len(branches)
    THEN branches[IF IntOf(choice) >= 1 THEN IntOf(choice)
                  ELSE Len(branches) + IntOf(choice)].next_node
    ELSE default_branch

\* the branch target chosen for the LLM's reply
choose_branch(branches, default_branch, choice) ==
    IF IsInt(choice)
    THEN IF 1 <= IntOf(choice) /\ IntOf(choice) <= Len(branches)
         THEN branches[IntOf(choice)].next_node
         ELSE default_branch
    ELSE default_branch

\* the reply line reads choice_num, which no assignment has bound after a
\* ValueError: the NameError lands in the outer handler
conditional_reply(branches, choice) ==
    IF ~IsInt(choice) THEN "Error in conditional branching: choice_num"
    ELSE IF 1 <= IntOf(choice) /\ IntOf(choice) <= Len(branches)
         THEN "Selected condition: " \o branches[IntOf(choice)].condition_text
         ELSE "Selected condition: default"

process_conditional_llm(node, user_input, system_prompt, voice_id, conversation_id, llm) ==
    IF node.branches = <<>>
    THEN Result("Error: no conditional branches configured", node.default_branch,
                conversation_id)
    ELSE LET response == chat_with_agent("choose", voice_id, conversation_id, llm)
         IN  [ (IF response.raises
                THEN Result("Error in conditional branching: llm", node.default_branch,
                            conversation_id)
                ELSE IF response.reply.kind = "none"
                THEN Result("Error in conditional branching: strip", node.default_branch,
                            response.conversation_id)
                ELSE Result(conditional_reply(node.branches, response.reply.chars),
                            choose_branch(node.branches, node.default_branch,
                                          response.reply.chars),
                            response.conversation_id))
               EXCEPT !.llm_calls = 1 ]

\* service.search_embeddings / scrape_and_search_web_source, then the join
process_knowledge(node, user_input, conversation_id, kb) ==
    IF kb.raises THEN Raises(0) ELSE Result(kb.text, node.next, conversation_id)

process_node(nodes, node, agent_id, user_input, system_prompt, voice_id, conversation_id, llm, hook, kb) ==
    CASE node.type = "message" -> process_message(node, user_input, conversation_id)
      [] node.type = "forced_message" ->
            process_forced_message(node, user_input, conversation_id)
      [] node.type = "webhook" ->
            process_webhook(node, user_input, system_prompt, voice_id, conversation_id,
                            llm, hook)
      [] node.type = "conditional_llm" ->
            process_conditional_llm(node, user_input, system_prompt, voice_id,
                                    conversation_id, llm)
      [] node.type = "knowledge" -> process_knowledge(node, user_input, conversation_id, kb)
      [] OTHER -> ReturnsNone

----------------------------------------------------------------------------
(* services/node.py: the node classes *)

PyNone == [kind |-> "none", s |-> "", d |-> <<>>]

NodeOutput(agent_id, node_id, node_type, output_text) ==
    [agent_id |-> agent_id, node_id |-> node_id, node_type |-> node_type,
     output_text |-> output_text]

\* save_node_output: the row it adds; output_text is not nullable, and the
\* failed commit is rolled back inside the function
save_node_output(agent_id, node_id, node_type, output_text) ==
    IF output_text = None THEN <<>>
    ELSE << NodeOutput(agent_id, node_id, node_type, output_text) >>

\* what Node.process comes to: the result dict (or an exception), the calls
\* made to the collaborators, the rows saved, and the caller's
\* last_user_input object as the call leaves it
NodeResult(reply, next_node, conversation_id, last_user_input) ==
    [kind |-> "result", reply |-> reply, action |-> NoAction, next_node |-> next_node,
     conversation_id |-> conversation_id, save_last_user_input |-> PyNone,
     llm_calls |-> 0, hook_calls |-> 0, kb_calls |-> 0, saved |-> <<>>,
     last_user_input |-> last_user_input, context |-> <<>>]

NodeRaises(llm_calls, last_user_input) ==
    [NodeResult("", None, None, last_user_input) EXCEPT
        !.kind = "raise", !.llm_calls = llm_calls]

\* a wait node that hands back the input it was given as last_user_input
WaitForUserInputNode_process_stale(node, agent_id, user_input, system_prompt, voice_id, conversation_id, last_user_input) ==
    [NodeResult("", node.next, conversation_id, last_user_input) EXCEPT
        !.save_last_user_input = last_user_input]

WaitForUserInputNode_process(node, agent_id, user_input, system_prompt, voice_id, conversation_id, last_user_input) ==
    [NodeResult("", node.next, conversation_id, last_user_input) EXCEPT
        !.save_last_user_input = user_input]

\* an extraction that asks the LLM whenever the node has parameters
WebhookNode_extract_params_via_llm_always_asking(user_input, params, system_prompt, voice_id, conversation_id, llm) ==
    IF params = <<>>
    THEN [raised |-> FALSE, found_params |-> <<>>, missing |-> <<>>,
          conversation_id |-> conversation_id, llm_calls |-> 0]
    ELSE LET response == chat_with_agent("extract", voice_id, conversation_id, llm)
             found == found_dynamic(response.reply)
         IN  IF response.raises
             THEN [raised |-> TRUE, found_params |-> <<>>, missing |-> <<>>,
                   conversation_id |-> conversation_id, llm_calls |-> 1]
             ELSE [raised |-> FALSE, found_params |-> found @@ fixed_params(params),
                   missing |-> missing_of(params, found),
                   conversation_id |-> response.conversation_id, llm_calls |-> 1]

WebhookNode_extract_params_via_llm(user_input, params, system_prompt, voice_id, conversation_id, llm) ==
    IF params = <<>>
    THEN [raised |-> FALSE, found_params |-> <<>>, missing |-> <<>>,
          conversation_id |-> conversation_id, llm_calls |-> 0]
    ELSE IF dynamic_params(params) = <<>>
    THEN [raised |-> FALSE, found_params |-> fixed_params(params), missing |-> <<>>,
          conversation_id |-> conversation_id, llm_calls |-> 0]
    ELSE LET response == chat_with_agent("extract", voice_id, conversation_id, llm)
             found == found_dynamic(response.reply)
         IN  IF response.raises
             THEN [raised |-> TRUE, found_params |-> <<>>, missing |-> <<>>,
                   conversation_id |-> conversation_id, llm_calls |-> 1]
             ELSE [raised |-> FALSE, found_params |-> found @@ fixed_params(params),
                   missing |-> missing_of(params, found),
                   conversation_id |-> response.conversation_id, llm_calls |-> 1]

\* node_data.get("missing_param_message", "Missing data")
WebhookNode_missing_message(node) ==
    IF node.missing_param_message = Absent THEN "Missing data"
    ELSE node.missing_param_message

WebhookNode_missing(node, agent_id, missing, conversation_id, last_user_input) ==
    [NodeResult(WebhookNode_missing_message(node), node.id, conversation_id,
                last_user_input) EXCEPT
        !.action = [name |-> node.action, missing_params |-> missing],
        !.saved = save_node_output(agent_id, node.id, "webhook",
                                   WebhookNode_missing_message(node))]

\* context['result'] = result, when the context is a non-empty dict
WithResult(last_user_input, body) ==
    IF last_user_input.kind = "dict" /\ DOMAIN last_user_input.d # {}
    THEN PyDict([k \in DOMAIN last_user_input.d \cup {"result"} |->
                    IF k = "result" THEN PyStr(body) ELSE last_user_input.d[k]])
    ELSE last_user_input

WebhookNode_called(node, agent_id, found_params, conversation_id, last_user_input, hook) ==
    LET r == call_webhook(node.url, found_params, hook)
    IN  IF r.raises
        THEN [NodeResult("Error calling " \o node.action \o ": " \o r.body,
                         node.on_failure, conversation_id, last_user_input) EXCEPT
                 !.hook_calls = 1,
                 !.saved = save_node_output(agent_id, node.id, "webhook",
                                            "Error calling " \o node.action \o ": " \o r.body)]
        ELSE [NodeResult("Webhook " \o node.action \o " executed successfully: "
                            \o Shown(r.body),
                         node.on_success, conversation_id,
                         WithResult(last_user_input, r.body)) EXCEPT
                 !.hook_calls = 1,
                 !.saved = save_node_output(agent_id, node.id, "webhook", r.body)]

WebhookNode_process(node, agent_id, user_input, system_prompt, voice_id, conversation_id, last_user_input, llm, hook) ==
    LET x == WebhookNode_extract_params_via_llm(
                 IF last_user_input.kind = "dict" THEN last_user_input ELSE PyDict(<<>>),
                 node.params, system_prompt, voice_id, conversation_id, llm)
    IN  IF x.raised THEN NodeRaises(x.llm_calls, last_user_input)
        ELSE IF x.missing # <<>>
        THEN [WebhookNode_missing(node, agent_id, x.missing, x.conversation_id,
                                  last_user_input) EXCEPT !.llm_calls = x.llm_calls]
        ELSE [WebhookNode_called(node, agent_id, x.found_params, x.conversation_id,
                                 last_user_input, hook) EXCEPT !.llm_calls = x.llm_calls]

ConditionalLLMNode_process(node, agent_id, user_input, system_prompt, voice_id, conversation_id, last_user_input, llm) ==
    IF node.branches = <<>>
    THEN NodeResult("Error: No conditional branches configured", node.default_branch,
                    conversation_id, last_user_input)
    ELSE LET response == chat_with_agent("choose", voice_id, conversation_id, llm)
         IN  [ (IF response.raises
                THEN NodeResult("", node.default_branch, conversation_id, last_user_input)
                ELSE IF response.reply.kind = "none"
                THEN NodeResult("", node.default_branch, response.conversation_id,
                                last_user_input)
                ELSE NodeResult("",
                                choose_branch(node.branches, node.default_branch,
                                              response.reply.chars),
                                response.conversation_id, last_user_input))
               EXCEPT !.llm_calls = 1 ]

\* query(NodeOutput).filter(NodeOutput.node_id == node_id)
\*     .order_by(NodeOutput.created_at.desc()).first(): the rows are kept in
\* the order of their created_at; 0 when the query finds none
most_recent_output(store, node_id) ==
    LET found == { i \in 1..Len(store) : store[i].node_id = node_id }
    IN  IF found = {} THEN 0 ELSE CHOOSE i \in found : \A j \in found : j <= i

\* int(conversation_id) of the ids explored: "7" is the one that parses
session_id_of(conversation_id) == IF conversation_id = "7" THEN 7 ELSE 0

\* get_display_text of the node classes create_node knows (the text of an
\* llm_request node's own system_prompt is not part of the graphs)
get_display_text(node) ==
    CASE node.type = "webhook" ->
            IF node.text # <<>> THEN Join(node.text) ELSE "Webhook: " \o node.action
      [] node.type = "wait_for_user_input" ->
            IF node.text # <<>> THEN Join(node.text) ELSE "Waiting for user input..."
      [] node.type = "forced_message" ->
            IF Truthy(node.reference_node_id)
            THEN "Reference to node: " \o node.reference_node_id
            ELSE IF node.forced_text \notin {AbsentKey, NullText, <<>>}
            THEN Join(node.forced_text)
            ELSE IF node.forced_text = AbsentKey /\ node.text # <<>> THEN Join(node.text)
            ELSE "Forced message"
      [] node.type = "conditional_llm" ->
            IF node.text # <<>> THEN Join(node.text) ELSE "Conditional LLM Node"
      [] node.type = "knowledge" -> ""
      [] node.type = "llm_request" ->
            IF node.text # <<>> THEN Join(node.text) ELSE "LLM Request Node"

\* the branch of ForcedMessageNode.process taken when reference_node_id is
\* set; SessionMessage has no node_id column, so the query on the session's
\* messages raises inside the try
ForcedMessageNode_reference(store, nodes, node, conversation_id) ==
    LET ref == node.reference_node_id
        i == most_recent_output(store, ref)
    IN  IF i # 0 THEN store[i].output_text
        ELSE IF Truthy(conversation_id) /\ session_id_of(conversation_id) # 0
        THEN "Error: Could not retrieve result from node " \o ref \o ": node_id"
        ELSE IF InNodes(nodes, ref) THEN get_display_text(Node(nodes, ref))
        ELSE "Error: No result found for node " \o ref

\* ForcedMessageNode.process; nodes is <<>> when the caller passes none
ForcedMessageNode_process(store, nodes, node, agent_id, user_input, conversation_id, last_user_input) ==
    LET context == IF last_user_input.kind # "none" THEN last_user_input ELSE user_input
        template == IF node.forced_text # AbsentKey THEN node.forced_text ELSE node.text
        formats == context.kind = "dict" /\ DOMAIN context.d # {}
    IN  IF Truthy(node.reference_node_id)
        THEN NodeResult(ForcedMessageNode_reference(store, nodes, node, conversation_id),
                        node.next, conversation_id, last_user_input)
        ELSE IF formats /\ template = NullText THEN NodeRaises(0, last_user_input)
        ELSE IF formats
        THEN NodeResult(safe_format(template, context), node.next, conversation_id,
                        last_user_input)
        ELSE NodeResult(IF template = NullText THEN None ELSE Join(template),
                        node.next, conversation_id, last_user_input)

\* LLMRequestNode._get_connected_nodes_context: one entry per connected node,
\* the stored text or the marker of a node without output (the knowledge
\* tables hold no source for it)
connected_nodes_context(store, node) ==
    [k \in 1..Len(node.connected_nodes) |->
        LET i == most_recent_output(store, node.connected_nodes[k])
        IN  IF i # 0 THEN store[i].output_text ELSE "[No output found]"]

LLMRequestNode_process(store, node, agent_id, user_input, system_prompt, voice_id, conversation_id, last_user_input, llm) ==
    LET response == chat_with_agent(connected_nodes_context(store, node), voice_id,
                                    conversation_id, llm)
        output == IF response.raises THEN "Error processing LLM request: llm"
                  ELSE IF response.reply.kind = "none" THEN None
                  ELSE Join(response.reply.chars)
    IN  [NodeResult("", node.next,
                    IF response.raises THEN conversation_id ELSE response.conversation_id,
                    last_user_input) EXCEPT
            !.llm_calls = 1,
            !.context = connected_nodes_context(store, node),
            !.saved = save_node_output(agent_id, node.id, "llm_request", output)]

----------------------------------------------------------------------------
(* api/sessions.py: the loops shared by the endpoints *)

max_forced_chain == 10

AgentId == 1
SystemPrompt == "prompt"
VoiceId == "voice"

UserInput(text) == PyDict([user_text |-> PyStr(text)])

AgentMsg(result) == [sender |-> "agent", text |-> result.reply, action |-> result.action]
\* a user record that loses the inbound text
UserMsg_blank(text) == [sender |-> "user", text |-> "", action |-> NoAction]

UserMsg(text) == [sender |-> "user", text |-> text, action |-> NoAction]

\* one process_node call of a turn, as the endpoint made it
Dispatch(node, text, result) ==
    [node |-> node.id, type |-> node.type, user_text |-> text, kind |-> result.kind,
     reply |-> result.reply, next_node |-> result.next_node, action |-> result.action,
     conversation_id |-> result.conversation_id, before |-> None]

\* the locals of an endpoint while it runs
Locals(current_node_id, conversation_id) ==
    [current_node_id |-> current_node_id, conversation_id |-> conversation_id,
     forced_chain_count |-> 0, messages |-> <<>>, calls |-> <<>>, failed |-> FALSE]

\* an endpoint that puts each reply in front of the ones before it
Adopt_prepending(st, node, text, result) ==
    IF result.kind # "result"
    THEN [st EXCEPT !.failed = TRUE,
                    !.calls = Append(@, [Dispatch(node, text, result) EXCEPT
                                            !.before = st.current_node_id])]
    ELSE [st EXCEPT !.messages = <<AgentMsg(result)>> \o @,
                    !.conversation_id = result.conversation_id,
                    !.current_node_id = result.next_node,
                    !.calls = Append(@, [Dispatch(node, text, result) EXCEPT
                                            !.before = st.current_node_id])]

\* the statements after a process_node call: result["reply"] fails on None
Adopt(st, node, text, result) ==
    IF result.kind # "result"
    THEN [st EXCEPT !.failed = TRUE,
                    !.calls = Append(@, [Dispatch(node, text, result) EXCEPT
                                            !.before = st.current_node_id])]
    ELSE [st EXCEPT !.messages = Append(@, AgentMsg(result)),
                    !.conversation_id = result.conversation_id,
                    !.current_node_id = result.next_node,
                    !.calls = Append(@, [Dispatch(node, text, result) EXCEPT
                                            !.before = st.current_node_id])]

\* a loop test that lets the counter reach the bound
OnForced_inclusive(nodes, st) ==
    /\ Truthy(st.current_node_id)
    /\ InNodes(nodes, st.current_node_id)
    /\ Node(nodes, st.current_node_id).type = "forced_message"
    /\ st.forced_chain_count <= max_forced_chain

OnForced(nodes, st) ==
    /\ Truthy(st.current_node_id)
    /\ InNodes(nodes, st.current_node_id)
    /\ Node(nodes, st.current_node_id).type = "forced_message"
    /\ st.forced_chain_count < max_forced_chain

\* while ... forced_message and forced_chain_count < max_forced_chain, with the
\* break on a next_node that is None or names no node
RECURSIVE forced_chain(_, _, _)
forced_chain(nodes, st, o) ==
    IF st.failed \/ ~OnForced(nodes, st) THEN st
    ELSE LET node == Node(nodes, st.current_node_id)
             result == process_node(nodes, node, AgentId, UserInput(""), SystemPrompt,
                                    VoiceId, st.conversation_id, o.llm, o.hook, o.kb)
             st2 == Adopt([st EXCEPT !.forced_chain_count = @ + 1], node, "", result)
         IN  IF st2.failed THEN st2
             ELSE IF ~Truthy(st2.current_node_id) \/ ~InNodes(nodes, st2.current_node_id)
             THEN st2
             ELSE forced_chain(nodes, st2, o)

\* a loop that goes on over nodes of any type
RECURSIVE trigger_chain_any_type(_, _, _)
trigger_chain_any_type(nodes, st, o) ==
    IF \/ st.failed
       \/ ~(Truthy(st.current_node_id) /\ InNodes(nodes, st.current_node_id))
       \/ ~(st.forced_chain_count < max_forced_chain)
    THEN st
    ELSE LET node == Node(nodes, st.current_node_id)
             result == process_node(nodes, node, AgentId, UserInput(""), SystemPrompt,
                                    VoiceId, st.conversation_id, o.llm, o.hook, o.kb)
         IN  trigger_chain_any_type(nodes,
                           Adopt([st EXCEPT !.forced_chain_count = @ + 1], node, "", result),
                           o)

\* the loop of trigger_forced_messages: it tests the node's type inside
RECURSIVE trigger_chain(_, _, _)
trigger_chain(nodes, st, o) ==
    IF \/ st.failed
       \/ ~(Truthy(st.current_node_id) /\ InNodes(nodes, st.current_node_id))
       \/ ~(st.forced_chain_count < max_forced_chain)
       \/ Node(nodes, st.current_node_id).type # "forced_message"
    THEN st
    ELSE LET node == Node(nodes, st.current_node_id)
             result == process_node(nodes, node, AgentId, UserInput(""), SystemPrompt,
                                    VoiceId, st.conversation_id, o.llm, o.hook, o.kb)
         IN  trigger_chain(nodes,
                           Adopt([st EXCEPT !.forced_chain_count = @ + 1], node, "", result),
                           o)

\* a resolution that stops at start_node
resolve_without_fallback(nodes, start_node, current_node) ==
    IF Truthy(current_node) /\ InNodes(nodes, current_node) THEN current_node
    ELSE IF Truthy(start_node) /\ InNodes(nodes, start_node) THEN start_node
    ELSE None

\* the node a turn starts on, or None
resolve(nodes, start_node, current_node) ==
    IF Truthy(current_node) /\ InNodes(nodes, current_node) THEN current_node
    ELSE IF Truthy(start_node) /\ InNodes(nodes, start_node) THEN start_node
    ELSE IF nodes # <<>> THEN FirstKey(nodes)
    ELSE None

\* a turn that hands the empty input to every node
user_step_ignoring_text(nodes, st, text, o) ==
    IF st.failed THEN st
    ELSE IF Truthy(st.current_node_id) /\ InNodes(nodes, st.current_node_id)
            /\ Node(nodes, st.current_node_id).type # "forced_message"
    THEN LET node == Node(nodes, st.current_node_id)
             result == process_node(nodes, node, AgentId, UserInput(""), SystemPrompt,
                                    VoiceId, st.conversation_id, o.llm, o.hook, o.kb)
         IN  forced_chain(nodes, Adopt(st, node, "", result), o)
    ELSE st

\* a turn that ends with the node that took the user input
user_step_without_chain(nodes, st, text, o) ==
    IF st.failed THEN st
    ELSE IF Truthy(st.current_node_id) /\ InNodes(nodes, st.current_node_id)
            /\ Node(nodes, st.current_node_id).type # "forced_message"
    THEN LET node == Node(nodes, st.current_node_id)
             result == process_node(nodes, node, AgentId, UserInput(text), SystemPrompt,
                                    VoiceId, st.conversation_id, o.llm, o.hook, o.kb)
         IN  Adopt(st, node, text, result)
    ELSE st

\* a second loop that counts its forced messages from zero
user_step_recounting(nodes, st, text, o) ==
    IF st.failed THEN st
    ELSE IF Truthy(st.current_node_id) /\ InNodes(nodes, st.current_node_id)
            /\ Node(nodes, st.current_node_id).type # "forced_message"
    THEN LET node == Node(nodes, st.current_node_id)
             result == process_node(nodes, node, AgentId, UserInput(text), SystemPrompt,
                                    VoiceId, st.conversation_id, o.llm, o.hook, o.kb)
         IN  forced_chain(nodes, [Adopt(st, node, text, result) EXCEPT
                                     !.forced_chain_count = 0], o)
    ELSE st

\* send_message from the first loop to the end of the second
user_step(nodes, st, text, o) ==
    IF st.failed THEN st
    ELSE IF Truthy(st.current_node_id) /\ InNodes(nodes, st.current_node_id)
            /\ Node(nodes, st.current_node_id).type # "forced_message"
    THEN LET node == Node(nodes, st.current_node_id)
             result == process_node(nodes, node, AgentId, UserInput(text), SystemPrompt,
                                    VoiceId, st.conversation_id, o.llm, o.hook, o.kb)
         IN  forced_chain(nodes, Adopt(st, node, text, result), o)
    ELSE st

\* the first loop of send_message: only forced_message nodes are processed
pre_input(nodes, node_id, conversation_id) ==
    forced_chain(nodes, Locals(node_id, conversation_id), Quiet)

send_message_turn(nodes, node_id, conversation_id, text, o) ==
    user_step(nodes, pre_input(nodes, node_id, conversation_id), text, o)

Texts(msgs) == [i \in 1..Len(msgs) |-> msgs[i].text]

----------------------------------------------------------------------------
(* The flow graphs, user texts and collaborator outcomes explored *)

MaxTurns == 3         \* endpoint calls made
MaxChainLen == 11     \* forced_message nodes of a chain graph
MaxChoiceLen == 2     \* characters of the LLM's reply to a selection prompt

UserTexts == {"hello", "bye"}

HiName == <<"Hi", " ", "{", "name", "}">>
YouSaid == <<"You", " ", "said:", " ", "{", "user_text", "}">>

\* the scenario of the README flow: greet, wait, echo
EchoAgent ==
    [nodes |-> << Forced("start", HiName, "wait"),
                  Wait("wait", "echo"),
                  Forced("echo", YouSaid, "wait") >>,
     start_node |-> "start"]

\* the loop of the scenario alone, entered on the wait node
WaitEchoAgent ==
    [nodes |-> << Wait("wait", "echo"), Forced("echo", YouSaid, "wait") >>,
     start_node |-> "wait"]

ChainId(i) == "f" \o ToString(i)

\* f1 -> f2 -> ... -> fk -> tail
ChainAgent(k, tail) ==
    [nodes |-> [i \in 1..k |->
                  Forced(ChainId(i), <<"m", ToString(i)>>,
                         IF i < k THEN ChainId(i + 1) ELSE tail)],
     start_node |-> "f1"]

ChainTails == {None, "ghost", "f1"}

ChainAgents == { ChainAgent(k, tail) : k \in 1..MaxChainLen, tail \in ChainTails }

Targets == {None, "a", "b", "ghost"}

Param(name, value) == [name |-> name, value |-> value, description |-> "d"]
ParamConfigs ==
    { <<>>,
      << Param("a", None) >>,
      << Param("a", ""), Param("b", "7") >>,
      << Param("a", None), Param("b", None) >>,
      << Param("b", "7") >> }

Branch(next_node) == [condition_text |-> "c", next_node |-> next_node]

NodeB == { Forced("b", YouSaid, "a"), Knowledge("b", None) }

WebhookAgents ==
    { [nodes |-> << Webhook("a", ps, mpm, s, f), b >>, start_node |-> "a"] :
        ps \in ParamConfigs, mpm \in {None, "Need more"},
        s \in {"b", "ghost"}, f \in {"a"}, b \in { Forced("b", YouSaid, None) } }

ConditionalAgents ==
    { [nodes |-> << Conditional("a", bs, d), b >>, start_node |-> "a"] :
        bs \in { <<>>, << Branch("b") >>, << Branch("b"), Branch("a") >>,
                 << Branch("ghost"), Branch(None) >> },
        d \in {None, "a", "b"}, b \in { Forced("b", YouSaid, None) } }

\* every pairing of a first node of any type with a second node
NodeA ==
    { Forced("a", tpl, t) : tpl \in {HiName, YouSaid}, t \in Targets }
    \cup { Wait("a", t) : t \in Targets }
    \cup { Knowledge("a", t) : t \in Targets }
    \cup { LLMRequest("a", t) : t \in Targets }
    \cup { [NodeDecl("a", "message") EXCEPT !.text = HiName, !.next = t] : t \in Targets }

PairAgents ==
    { [nodes |-> <<a, b>>, start_node |-> s] :
        a \in NodeA, b \in NodeB, s \in {"a", "b", "ghost"} }

\* f1 -> ... -> fi -> k -> g -> g: forced messages on both sides of a
\* knowledge node, the later ones on a cycle
MixedAgent(i, start) ==
    [nodes |-> [j \in 1..(i + 2) |->
                  IF j <= i
                  THEN Forced(ChainId(j), <<"m", ToString(j)>>,
                              IF j < i THEN ChainId(j + 1) ELSE "k")
                  ELSE IF j = i + 1 THEN Knowledge("k", "g")
                  ELSE Forced("g", <<"again">>, "g")],
     start_node |-> start]

MixedAgents ==
    { MixedAgent(i, start) : i \in {0, 3, max_forced_chain}, start \in {"f1", "ghost"} }

NoNodesAgent == [nodes |-> <<>>, start_node |-> None]

Agents ==
    {EchoAgent, WaitEchoAgent, NoNodesAgent}
    \cup ChainAgents \cup WebhookAgents \cup ConditionalAgents \cup PairAgents
    \cup MixedAgents

ChoiceAlphabet == {" ", "-", "0", "1", "2", "3", "4", "x"}

RECURSIVE SeqsUpTo(_, _)
SeqsUpTo(S, n) ==
    IF n = 0 THEN {<<>>}
    ELSE LET shorter == SeqsUpTo(S, n - 1)
         IN  shorter \cup { Append(q, c) : q \in shorter, c \in S }

ChoiceTexts == SeqsUpTo(ChoiceAlphabet, MaxChoiceLen)

ParamValues == {JNull, "5"}
Objects == UNION { [K -> ParamValues] : K \in SUBSET {"a", "b"} }

\* a reply that is no JSON object, and one that is no number
NotAnObject == TextReply(<<"x">>)
NotANumber == ObjectReply(<<>>)

\* to the extraction prompt of a webhook node
ExtractionOutcomes ==
    {LLMRaises, LLMAnswers(NoReply), LLMAnswers(NotAnObject)}
    \cup { LLMAnswers(ObjectReply(obj)) : obj \in Objects }

\* to the selection prompt of a conditional_llm node: every reply text for
\* a direct call of the node, a sample of them for a whole turn
AllSelectionOutcomes ==
    {LLMRaises, LLMAnswers(NoReply), LLMAnswers(NotANumber)}
    \cup { LLMAnswers(TextReply(c)) : c \in ChoiceTexts }

SelectionOutcomes ==
    {LLMRaises, LLMAnswers(NoReply), LLMAnswers(NotANumber)}
    \cup { LLMAnswers(TextReply(c)) :
             c \in { <<"0">>, <<"1">>, <<" ", "2", " ">>, <<"3">>, <<"-", "1">>, <<"x">> } }

HookOutcomes == {HookAnswers(200, "42"), HookAnswers(500, "oops"), HookRaises("timeout")}

KBOutcomes == {KBFinds("fact"), KBFinds(""), KBRaises}

\* the outcomes the collaborators may give to a call of process_node on a
\* node of the given type; a collaborator that type never calls stays quiet
Oracles(type) ==
    [llm : CASE type = "webhook" -> ExtractionOutcomes
             [] type = "conditional_llm" -> SelectionOutcomes
             [] OTHER -> {Quiet.llm},
     hook : IF type = "webhook" THEN HookOutcomes ELSE {Quiet.hook},
     kb : IF type = "knowledge" THEN KBOutcomes ELSE {Quiet.kb}]

TypeAt(nodes, id) == IF Truthy(id) /\ InNodes(nodes, id) THEN Node(nodes, id).type ELSE None

----------------------------------------------------------------------------
(* services/knowledge_service.py: KnowledgeService *)

NoDict == <<>>

KnowledgeNode(id, agent_id, node_id, name, source_type, source_data, extractor_metadata) ==
    [id |-> id, agent_id |-> agent_id, node_id |-> node_id, name |-> name,
     source_type |-> source_type, source_data |-> source_data,
     extractor_metadata |-> extractor_metadata]

KnowledgeEmbedding(kb_id, chunk_index, text_chunk) ==
    [kb_id |-> kb_id, chunk_index |-> chunk_index, text_chunk |-> text_chunk]

\* the arguments a service call handed to _create_or_update_knowledge_node
NoWrite ==
    [written |-> FALSE, source_type |-> None, source_data |-> PyNone,
     extractor_metadata |-> PyNone]
Write(source_type, source_data, extractor_metadata) ==
    [written |-> TRUE, source_type |-> source_type, source_data |-> source_data,
     extractor_metadata |-> extractor_metadata]

NoSourceCall ==
    [op |-> "none", agent_id |-> 0, node_id |-> None, source_name |-> None, raised |-> FALSE,
     write |-> NoWrite]

NoKnowledge == [nodes |-> <<>>, embeddings |-> <<>>, call |-> NoSourceCall]

\* query(KnowledgeNode).filter(agent_id, node_id).first(): the row's index, or 0
first_knowledge_node(kb, agent_id, node_id) ==
    LET hits == { i \in 1..Len(kb.nodes) :
                    kb.nodes[i].agent_id = agent_id /\ kb.nodes[i].node_id = node_id }
    IN  IF hits = {} THEN 0 ELSE CHOOSE i \in hits : \A j \in hits : i <= j

\* a version that adds a row on every call
create_or_update_knowledge_node_adding(kb, agent_id, node_id, source_name, source_type, source_data, extractor_metadata) ==
    [kb EXCEPT !.nodes = Append(@, KnowledgeNode(Len(kb.nodes) + 1, agent_id, node_id,
                                                 source_name, source_type, source_data,
                                                 extractor_metadata))]

create_or_update_knowledge_node(kb, agent_id, node_id, source_name, source_type, source_data, extractor_metadata) ==
    LET i == first_knowledge_node(kb, agent_id, node_id)
    IN  IF i # 0
        THEN [kb EXCEPT
                !.nodes[i] = [@ EXCEPT !.name = source_name, !.source_type = source_type,
                                       !.source_data = source_data,
                                       !.extractor_metadata = extractor_metadata],
                !.embeddings = IF source_type # "web"
                               THEN SelectSeq(@, LAMBDA e : e.kb_id # kb.nodes[i].id)
                               ELSE @]
        ELSE [kb EXCEPT !.nodes = Append(@, KnowledgeNode(Len(kb.nodes) + 1, agent_id, node_id,
                                                          source_name, source_type,
                                                          source_data, extractor_metadata))]

create_embeddings_for_node(kb, kb_id, chunks) ==
    [kb EXCEPT !.embeddings =
        @ \o [c \in 1..Len(chunks) |-> KnowledgeEmbedding(kb_id, c - 1, chunks[c])]]

\* what the extractors and the embedding model do with one source
WebSource == [kind |-> "web", source_type |-> "web", chunks |-> <<>>]
Extracted(source_type, chunks) ==
    [kind |-> "extracted", source_type |-> source_type, chunks |-> chunks]
ExtractRaises == [kind |-> "extract_raises", source_type |-> None, chunks |-> <<>>]
EmbedRaises(source_type) ==
    [kind |-> "embed_raises", source_type |-> source_type, chunks |-> <<"c">>]

\* add_source: the rows it leaves, whether it raised, and what it wrote
add_source(kb, agent_id, node_id, data, source_name, source_metadata, x) ==
    LET meta == IF source_metadata.kind = "none" THEN NoDict ELSE source_metadata.d
        web_data == PyDict([k \in {"url"} \cup DOMAIN meta |->
                               IF k \in DOMAIN meta THEN meta[k] ELSE data])
        web_meta == PyDict([source_type |-> "web", url |-> data])
        meta_of_x == PyDict([source_type |-> x.source_type])
    IN  IF x.kind = "extract_raises" THEN [kb |-> kb, raised |-> TRUE, write |-> NoWrite]
        ELSE IF x.kind = "web"
        THEN [kb |-> create_or_update_knowledge_node(kb, agent_id, node_id, source_name,
                                                     "web", web_data, web_meta),
              raised |-> FALSE, write |-> Write("web", web_data, web_meta)]
        ELSE LET kb2 == create_or_update_knowledge_node(
                            kb, agent_id, node_id, source_name, x.source_type,
                            source_metadata, meta_of_x)
                 kb_id == kb2.nodes[first_knowledge_node(kb2, agent_id, node_id)].id
             IN  [kb |-> IF x.kind = "embed_raises" THEN kb2
                         ELSE create_embeddings_for_node(kb2, kb_id, x.chunks),
                  raised |-> x.kind = "embed_raises",
                  write |-> Write(x.source_type, source_metadata, meta_of_x)]

----------------------------------------------------------------------------
(* api/sessions.py: the endpoints *)

\* SessionModel(agent_id=..., user_id=...): the nullable columns start as NULL
NewSession == [current_node |-> None, conversation_id |-> None, last_user_input |-> PyNone]

\* an endpoint that stores the cursor only
Committed_cursor_only(row, st) ==
    [row EXCEPT !.current_node = st.current_node_id]

\* session.current_node / conversation_id as the endpoints write them
Committed(row, st) ==
    [row EXCEPT !.current_node = st.current_node_id,
                !.conversation_id = IF Truthy(st.conversation_id) THEN st.conversation_id
                                    ELSE @]

NoTurn ==
    [op |-> "none", sid |-> 0, status |-> 0, text |-> "", start |-> None, before |-> None,
     calls |-> <<>>, replies |-> <<>>, reply |-> "", has_messages |-> FALSE,
     next_node |-> None, conversation_id |-> None]

\* a response that joins the replies in every endpoint
Response_joining(op, sid, text, start, before, st) ==
    [op |-> op, sid |-> sid, status |-> 200, text |-> text, start |-> start,
     before |-> before, calls |-> st.calls, replies |-> Texts(st.messages),
     reply |-> IF st.messages = <<>> THEN "No response generated"
               ELSE Join([i \in 1..(2 * Len(st.messages) - 1) |->
                            IF i % 2 = 1 THEN st.messages[(i + 1) \div 2].text ELSE "\n"]),
     has_messages |-> st.messages # <<>>,
     next_node |-> st.current_node_id, conversation_id |-> st.conversation_id]

\* the response of an endpoint that reached its return statement
Response(op, sid, text, start, before, st) ==
    [op |-> op, sid |-> sid, status |-> 200, text |-> text, start |-> start,
     before |-> before, calls |-> st.calls, replies |-> Texts(st.messages),
     reply |-> IF st.messages = <<>> THEN "No response generated"
               ELSE IF Len(st.messages) = 1 THEN st.messages[1].text
               ELSE IF op = "trigger_forced" THEN Join(
                        [i \in 1..(2 * Len(st.messages) - 1) |->
                            IF i % 2 = 1 THEN st.messages[(i + 1) \div 2].text ELSE "\n"])
               ELSE "",
     has_messages |-> st.messages # <<>>,
     next_node |-> st.current_node_id, conversation_id |-> st.conversation_id]

\* an HTTPException raised by the endpoint, or the 500 of an unhandled exception
Failure(op, sid, status, text, start, before, st) ==
    [NoTurn EXCEPT !.op = op, !.sid = sid, !.status = status, !.text = text,
                   !.start = start, !.before = before, !.calls = st.calls]

\* no node class has been called yet
NoCall ==
    [cls |-> "none", node |-> NodeDecl("", ""), user_input |-> PyNone,
     conversation_id |-> None, last_user_input |-> PyNone, llm |-> Quiet.llm,
     hook |-> Quiet.hook, result |-> NodeResult("", None, None, PyNone),
     agent_id |-> AgentId, nodes |-> <<>>]

Called(cls, node, user_input, conversation_id, last_user_input, o, result) ==
    [cls |-> cls, node |-> node, user_input |-> user_input,
     conversation_id |-> conversation_id, last_user_input |-> last_user_input,
     llm |-> o.llm, hook |-> o.hook, result |-> result,
     agent_id |-> AgentId, nodes |-> <<>>]

Init ==
    /\ agent \in Agents
    /\ sessions = <<>>
    /\ messages = <<>>
    /\ node_output = <<>>
    /\ turns = 0
    /\ last = NoTurn
    /\ call = NoCall
    /\ knowledge = NoKnowledge
    /\ requests = <<>>

create_session ==
    /\ turns < MaxTurns
    /\ \E o \in {Quiet} :
         LET nodes == agent.nodes
             start_node_id == agent.start_node
             sid == Len(sessions) + 1
             forced == /\ Truthy(start_node_id)
                       /\ InNodes(nodes, start_node_id)
                       /\ Node(nodes, start_node_id).type = "forced_message"
             st == IF forced THEN forced_chain(nodes, Locals(start_node_id, None), o)
                   ELSE Locals(start_node_id, None)
         IN  /\ sessions' = Append(sessions,
                                   IF forced /\ ~st.failed THEN Committed(NewSession, st)
                                   ELSE NewSession)
             /\ messages' = Append(messages, IF forced /\ ~st.failed THEN st.messages ELSE <<>>)
             /\ last' = IF forced /\ st.failed
                        THEN Failure("create_session", sid, 500, "", start_node_id, None, st)
                        ELSE IF forced
                        THEN Response("create_session", sid, "", start_node_id, None, st)
                        ELSE [Response("create_session", sid, "", start_node_id, None, st)
                                 EXCEPT !.reply = ""]
    /\ turns' = turns + 1
    /\ UNCHANGED <<agent, node_output, call, knowledge, requests>>

\* a send_message that stores the inbound message before it resolves the node
send_message_logging_first ==
    /\ turns < MaxTurns
    /\ \E sid \in 1..Len(sessions), text \in UserTexts :
       \E o \in Oracles(TypeAt(agent.nodes,
                               pre_input(agent.nodes,
                                         resolve(agent.nodes, agent.start_node,
                                                 sessions[sid].current_node),
                                         sessions[sid].conversation_id).current_node_id)) :
         LET nodes == agent.nodes
             row == sessions[sid]
             node_id == resolve(nodes, agent.start_node, row.current_node)
             st == send_message_turn(nodes, node_id, row.conversation_id, text, o)
         IN  IF ~Truthy(node_id)
             THEN /\ last' = Failure("send_message", sid, 400, text, node_id,
                                     row.current_node, Locals(node_id, None))
                  /\ messages' = [messages EXCEPT ![sid] = Append(@, UserMsg(text))]
                  /\ UNCHANGED sessions
             ELSE IF st.failed
             THEN /\ last' = Failure("send_message", sid, 500, text, node_id,
                                     row.current_node, st)
                  /\ UNCHANGED <<sessions, messages>>
             ELSE /\ sessions' = [sessions EXCEPT ![sid] = Committed(row, st)]
                  /\ messages' = [messages EXCEPT ![sid] = (@ \o <<UserMsg(text)>>) \o st.messages]
                  /\ last' = Response("send_message", sid, text, node_id, row.current_node, st)
    /\ turns' = turns + 1
    /\ UNCHANGED <<agent, node_output, call, knowledge, requests>>

send_message ==
    /\ turns < MaxTurns
    /\ \E sid \in 1..Len(sessions), text \in UserTexts :
       \E o \in Oracles(TypeAt(agent.nodes,
                               pre_input(agent.nodes,
                                         resolve(agent.nodes, agent.start_node,
                                                 sessions[sid].current_node),
                                         sessions[sid].conversation_id).current_node_id)) :
         LET nodes == agent.nodes
             row == sessions[sid]
             node_id == resolve(nodes, agent.start_node, row.current_node)
             st == send_message_turn(nodes, node_id, row.conversation_id, text, o)
         IN  IF ~Truthy(node_id)
             THEN /\ last' = Failure("send_message", sid, 400, text, node_id,
                                     row.current_node, Locals(node_id, None))
                  /\ UNCHANGED <<sessions, messages>>
             ELSE IF st.failed
             THEN /\ last' = Failure("send_message", sid, 500, text, node_id,
                                     row.current_node, st)
                  /\ UNCHANGED <<sessions, messages>>
             ELSE /\ sessions' = [sessions EXCEPT ![sid] = Committed(row, st)]
                  /\ messages' = [messages EXCEPT ![sid] = (@ \o <<UserMsg(text)>>) \o st.messages]
                  /\ last' = Response("send_message", sid, text, node_id, row.current_node, st)
    /\ turns' = turns + 1
    /\ UNCHANGED <<agent, node_output, call, knowledge, requests>>

\* a trigger that stores its cursor in every session of the table
trigger_forced_messages_on_all ==
    /\ turns < MaxTurns
    /\ \E sid \in 1..Len(sessions), o \in {Quiet} :
         LET nodes == agent.nodes
             row == sessions[sid]
             node_id == resolve(nodes, agent.start_node, row.current_node)
             st == trigger_chain(nodes, Locals(node_id, row.conversation_id), o)
         IN  IF ~Truthy(node_id) \/ Node(nodes, node_id).type # "forced_message"
             THEN /\ last' = Failure("trigger_forced", sid, 400, "", node_id,
                                     row.current_node, Locals(node_id, None))
                  /\ UNCHANGED <<sessions, messages>>
             ELSE IF st.failed
             THEN /\ last' = Failure("trigger_forced", sid, 500, "", node_id,
                                     row.current_node, st)
                  /\ UNCHANGED <<sessions, messages>>
             ELSE /\ sessions' = [i \in 1..Len(sessions) |-> Committed(sessions[i], st)]
                  /\ messages' = [messages EXCEPT ![sid] = @ \o st.messages]
                  /\ last' = Response("trigger_forced", sid, "", node_id, row.current_node, st)
    /\ turns' = turns + 1
    /\ UNCHANGED <<agent, node_output, call, knowledge, requests>>

trigger_forced_messages ==
    /\ turns < MaxTurns
    /\ \E sid \in 1..Len(sessions), o \in {Quiet} :
         LET nodes == agent.nodes
             row == sessions[sid]
             node_id == resolve(nodes, agent.start_node, row.current_node)
             st == trigger_chain(nodes, Locals(node_id, row.conversation_id), o)
         IN  IF ~Truthy(node_id) \/ Node(nodes, node_id).type # "forced_message"
             THEN /\ last' = Failure("trigger_forced", sid, 400, "", node_id,
                                     row.current_node, Locals(node_id, None))
                  /\ UNCHANGED <<sessions, messages>>
             ELSE IF st.failed
             THEN /\ last' = Failure("trigger_forced", sid, 500, "", node_id,
                                     row.current_node, st)
                  /\ UNCHANGED <<sessions, messages>>
             ELSE /\ sessions' = [sessions EXCEPT ![sid] = Committed(row, st)]
                  /\ messages' = [messages EXCEPT ![sid] = @ \o st.messages]
                  /\ last' = Response("trigger_forced", sid, "", node_id, row.current_node, st)
    /\ turns' = turns + 1
    /\ UNCHANGED <<agent, node_output, call, knowledge, requests>>

Next == create_session \/ send_message \/ trigger_forced_messages

Spec == Init /\ [][Next]_vars

----------------------------------------------------------------------------
(* Direct calls of the node classes and of process_node, on drawn inputs *)

MaxBranches == 2      \* branches of a conditional_llm node

UserInputs == { UserInput(t) : t \in UserTexts } \cup { PyDict(<<>>) }
LastInputs == { PyNone, PyDict(<<>>), UserInput("hello") }
ConversationIds == { None, "c7" }

WaitNodes == { Wait("a", t) : t \in Targets }

WebhookNodes ==
    { Webhook("a", ps, mpm, "b", "a") :
        ps \in ParamConfigs, mpm \in {Absent, None, "Need more"} }

BranchTarget(i) == "t" \o ToString(i)

ConditionalNodes ==
    { Conditional("a", [i \in 1..n |-> Branch(BranchTarget(i))], d) :
        n \in 0..MaxBranches, d \in {None, "dflt"} }

\* NoCall: one call is made on the drawn inputs
\* process_node hands the node classes no last_user_input; its result carried
\* into the record of a direct call
OfRuntime(r) ==
    [NodeResult(r.reply, r.next_node, r.conversation_id, PyNone) EXCEPT
        !.kind = r.kind, !.action = r.action, !.llm_calls = r.llm_calls,
        !.hook_calls = r.hook_calls]

NodeInit ==
    /\ agent = NoNodesAgent
    /\ sessions = <<>>
    /\ messages = <<>>
    /\ node_output = <<>>
    /\ turns = 0
    /\ last = NoTurn
    /\ call = NoCall
    /\ knowledge = NoKnowledge
    /\ requests = <<>>

Record(c) ==
    /\ call' = c
    /\ node_output' = node_output \o c.result.saved
    /\ turns' = turns + 1
    /\ UNCHANGED <<agent, sessions, messages, last, knowledge, requests>>

wait_call ==
    /\ call = NoCall
    /\ \E node \in WaitNodes, ui \in UserInputs, cid \in ConversationIds, lui \in LastInputs :
        Record(Called("WaitForUserInputNode", node, ui, cid, lui, Quiet,
                      WaitForUserInputNode_process(node, AgentId, ui, SystemPrompt, VoiceId,
                                                   cid, lui)))

webhook_call ==
    /\ call = NoCall
    /\ \E node \in WebhookNodes, ui \in UserInputs, cid \in ConversationIds, lui \in LastInputs,
       o \in Oracles("webhook") :
        Record(Called("WebhookNode", node, ui, cid, lui, o,
                      WebhookNode_process(node, AgentId, ui, SystemPrompt, VoiceId, cid,
                                          lui, o.llm, o.hook)))

conditional_call ==
    /\ call = NoCall
    /\ \E node \in ConditionalNodes, ui \in UserInputs, cid \in ConversationIds,
       lui \in LastInputs, llm \in AllSelectionOutcomes :
        Record(Called("ConditionalLLMNode", node, ui, cid, lui, [Quiet EXCEPT !.llm = llm],
                      ConditionalLLMNode_process(node, AgentId, ui, SystemPrompt, VoiceId,
                                                 cid, lui, llm)))

\* agent_runtime.process_node on one node
runtime_call ==
    /\ call = NoCall
    /\ \E node \in WaitNodes \cup WebhookNodes \cup ConditionalNodes,
       ui \in { UserInput(t) : t \in UserTexts }, cid \in ConversationIds :
      \E o \in IF node.type = "conditional_llm"
               THEN { [Quiet EXCEPT !.llm = llm] : llm \in AllSelectionOutcomes }
               ELSE Oracles(node.type) :
        Record(Called("process_node", node, ui, cid, PyNone, o,
                      OfRuntime(process_node(<<node>>, node, AgentId, ui, SystemPrompt,
                                             VoiceId, cid, o.llm, o.hook, o.kb))))

MaxTemplateLen == 5   \* tokens of a template

TemplateAlphabet == {"{", "}", ".", "name", "user_text"}
Templates == SeqsUpTo(TemplateAlphabet, MaxTemplateLen)

\* the contexts safe_format is given: empty, flat, holding a text with braces,
\* and nested
Contexts ==
    { PyDict(<<>>),
      UserInput("hello"),
      PyDict([k \in {"user_text", "name"} |->
                 IF k = "name" THEN PyStr("Bob") ELSE PyStr("{name}")]),
      PyDict([k \in {"name"} |-> UserInput("5")]) }

\* safe_format on one template and one context
format_call ==
    /\ call = NoCall
    /\ \E template \in Templates, context \in Contexts :
        Record(Called("safe_format", [NodeDecl("", "template") EXCEPT !.text = template],
                      context, None, PyNone, Quiet,
                      NodeResult(safe_format(template, context), None, None, PyNone)))

NodeNext == wait_call \/ webhook_call \/ conditional_call \/ runtime_call \/ format_call

NodeSpec == NodeInit /\ [][NodeNext]_vars

----------------------------------------------------------------------------
(* Calls of the knowledge service, on drawn sources *)

MaxSources == 2       \* calls of the knowledge service

KnowledgeKeys == { <<1, "k1">>, <<1, "k2">>, <<2, "k1">> }
SourceNames == {"n1", "n2"}
Urls == {"http://u1", "http://u2"}
ExtractorOutcomes ==
    { WebSource, Extracted("document", <<"c">>), ExtractRaises, EmbedRaises("document") }

KnowledgeInit ==
    /\ agent = NoNodesAgent
    /\ sessions = <<>>
    /\ messages = <<>>
    /\ node_output = <<>>
    /\ turns = 0
    /\ last = NoTurn
    /\ call = NoCall
    /\ knowledge = NoKnowledge
    /\ requests = <<>>

\* the service call made, and the rows it left
Served(op, key, source_name, r) ==
    /\ knowledge' = [r.kb EXCEPT !.call = [op |-> op, agent_id |-> key[1], node_id |-> key[2],
                                           source_name |-> source_name, raised |-> r.raised,
                                           write |-> r.write]]
    /\ turns' = turns + 1
    /\ UNCHANGED <<agent, sessions, messages, node_output, last, call, requests>>

add_source_call ==
    /\ turns < MaxSources
    /\ \E key \in KnowledgeKeys, name \in SourceNames, x \in ExtractorOutcomes :
        Served("add_source", key, name,
               add_source(knowledge, key[1], key[2], "data", name, PyNone, x))

add_document ==
    /\ turns < MaxSources
    /\ \E key \in KnowledgeKeys, filename \in SourceNames, x \in ExtractorOutcomes :
        Served("add_document", key, filename,
               add_source(knowledge, key[1], key[2], "file", filename,
                          PyDict([upload_type |-> "file"]), x))

add_url ==
    /\ turns < MaxSources
    /\ \E key \in KnowledgeKeys, url \in Urls, x \in ExtractorOutcomes :
        Served("add_url", key, url,
               add_source(knowledge, key[1], key[2], url, url,
                          PyDict([url |-> url, upload_type |-> "url"]), x))

add_audio ==
    /\ turns < MaxSources
    /\ \E key \in KnowledgeKeys, filename \in SourceNames, x \in ExtractorOutcomes :
        Served("add_audio", key, filename,
               add_source(knowledge, key[1], key[2], "audio", filename,
                          PyDict([filename |-> filename, upload_type |-> "audio"]), x))

create_or_update_call ==
    /\ turns < MaxSources
    /\ \E key \in KnowledgeKeys, name \in SourceNames, source_type \in {"web", "document"} :
        Served("_create_or_update_knowledge_node", key, name,
               [kb |-> create_or_update_knowledge_node(knowledge, key[1], key[2], name,
                                                       source_type, PyNone,
                                                       PyDict([source_type |-> source_type])),
                raised |-> FALSE,
                write |-> Write(source_type, PyNone, PyDict([source_type |-> source_type]))])

KnowledgeNext ==
    add_source_call \/ add_document \/ add_url \/ add_audio \/ create_or_update_call

KnowledgeSpec == KnowledgeInit /\ [][KnowledgeNext]_vars

----------------------------------------------------------------------------
(* Calls of the node classes that write and read the node_output table *)

MaxStoreCalls == 3    \* calls made on one table

StoreAgents == {1, 2}

\* the webhook node "w" of both agents, with and without a parameter the
\* LLM has to find, and what their endpoints answer
StoreWebhookNodes ==
    { Webhook("w", ps, mpm, "b", "w") :
        ps \in { <<>>, << Param("a", None) >> }, mpm \in {None, "Need more"} }

StoreHookOutcomes(agent_id) ==
    IF agent_id = 1 THEN {HookAnswers(200, "42"), HookRaises("timeout")}
    ELSE {HookAnswers(200, "secret")}

StoreLLMNodes ==
    { [LLMRequest("q", "b") EXCEPT !.connected_nodes = c] :
        c \in { <<>>, <<"w">>, <<"w", "ghost">> } }

StoreLLMOutcomes == {LLMAnswers(TextReply(<<"answer">>)), LLMAnswers(NoReply), LLMRaises}

\* forced_message nodes that refer to another node's output
ReferenceNodes ==
    { [Forced("f", HiName, "b") EXCEPT !.reference_node_id = ref] : ref \in {"w", "ghost"} }

\* forced_message nodes that carry their own template: forced_text set,
\* null, or absent with the template in text
TemplateNodes ==
    { [Forced("f", ft, "b") EXCEPT !.text = text] :
        ft \in {AbsentKey, NullText, HiName}, text \in {<<>>, YouSaid} }

StoreInputs == { PyNone, PyDict(<<>>), UserInput("hello") }

By(agent_id, nodes, c) == [c EXCEPT !.agent_id = agent_id, !.nodes = nodes]

\* WebhookNode.process of either agent
store_webhook_call ==
    /\ turns < MaxStoreCalls
    /\ \E a \in StoreAgents, node \in StoreWebhookNodes :
       \E hook \in StoreHookOutcomes(a) :
         LET o == [Quiet EXCEPT !.llm = LLMAnswers(NoReply), !.hook = hook]
         IN  Record(By(a, <<>>,
                       Called("WebhookNode", node, UserInput("hello"), None, PyNone, o,
                              WebhookNode_process(node, a, UserInput("hello"), SystemPrompt,
                                                  VoiceId, None, PyNone, o.llm, o.hook))))

\* LLMRequestNode.process
store_llm_request_call ==
    /\ turns < MaxStoreCalls
    /\ \E node \in StoreLLMNodes, llm \in StoreLLMOutcomes :
         Record(By(1, <<>>,
                   Called("LLMRequestNode", node, UserInput("hello"), None, PyNone,
                          [Quiet EXCEPT !.llm = llm],
                          LLMRequestNode_process(node_output, node, 1, UserInput("hello"),
                                                 SystemPrompt, VoiceId, None, PyNone, llm))))

\* ForcedMessageNode.process on a node with reference_node_id
store_reference_call ==
    /\ turns < MaxStoreCalls
    /\ \E node \in ReferenceNodes, cid \in {None, "c7", "7"},
          nodes \in { <<>>, << Webhook("w", <<>>, None, "b", "w") >> },
          lui \in {PyNone, UserInput("bye")} :
         Record(By(1, nodes,
                   Called("ForcedMessageNode", node, UserInput(""), cid, lui, Quiet,
                          ForcedMessageNode_process(node_output, nodes, node, 1,
                                                    UserInput(""), cid, lui))))

\* ForcedMessageNode.process on a node with its own template
store_template_call ==
    /\ turns < MaxStoreCalls
    /\ \E node \in TemplateNodes, ui \in StoreInputs, lui \in StoreInputs :
         Record(By(1, <<>>,
                   Called("ForcedMessageNode", node, ui, None, lui, Quiet,
                          ForcedMessageNode_process(node_output, <<>>, node, 1, ui, None,
                                                    lui))))

\* agent_runtime.process_node on the same nodes
store_runtime_call ==
    /\ turns < MaxStoreCalls
    /\ \E node \in ReferenceNodes \cup TemplateNodes \cup StoreLLMNodes,
          ui \in StoreInputs \ {PyNone} :
       \E o \in Oracles(node.type) :
         Record(By(1, <<node>>,
                   Called("process_node", node, ui, None, PyNone, o,
                          OfRuntime(process_node(<<node>>, node, 1, ui, SystemPrompt,
                                                 VoiceId, None, o.llm, o.hook, o.kb)))))

StoreNext ==
    \/ store_webhook_call
    \/ store_llm_request_call
    \/ store_reference_call
    \/ store_template_call
    \/ store_runtime_call

StoreSpec == NodeInit /\ [][StoreNext]_vars

----------------------------------------------------------------------------
(* send_message requests on one session that overlap in time: each request
   loads the session row into its own database session (get_db), runs the
   turn on what it loaded, and commits *)

MaxRequests == 2      \* send_message requests received

\* a selection between a node that ends the flow and the node itself
RaceAgents ==
    { [nodes |-> << Conditional("a", << Branch("b"), Branch("a") >>, d),
                    Forced("b", YouSaid, None) >>,
       start_node |-> "a"] : d \in {None, "a", "b"} }

\* a request that has loaded the row and not yet committed
InFlight(text, row, now) ==
    [text |-> text, row |-> row, read_at |-> now, status |-> 0, next_node |-> None,
     commit_at |-> 0, messages |-> <<>>]

\* db.commit() after the assignments to db_session: the UPDATE sets the
\* attributes whose assigned value differs from the value the request loaded
Flushed(stored, loaded, st) ==
    LET assigned == Committed(loaded, st)
    IN  [stored EXCEPT
           !.current_node = IF assigned.current_node # loaded.current_node
                            THEN assigned.current_node ELSE @,
           !.conversation_id = IF assigned.conversation_id # loaded.conversation_id
                               THEN assigned.conversation_id ELSE @]

\* a session of an agent whose start node is no forced_message, as
\* create_session leaves it
RaceInit ==
    /\ agent \in RaceAgents
    /\ sessions = << NewSession >>
    /\ messages = << <<>> >>
    /\ node_output = <<>>
    /\ turns = 0
    /\ last = NoTurn
    /\ call = NoCall
    /\ knowledge = NoKnowledge
    /\ requests = <<>>

\* send_message up to the point where the row is loaded
receive_message ==
    /\ Len(requests) < MaxRequests
    /\ \E text \in UserTexts :
         requests' = Append(requests, InFlight(text, sessions[1], turns + 1))
    /\ turns' = turns + 1
    /\ UNCHANGED <<agent, sessions, messages, node_output, last, call, knowledge>>

\* the rest of send_message: the turn on the loaded row, and the commit
complete_message ==
    \E i \in 1..Len(requests) :
      /\ requests[i].status = 0
      /\ \E o \in Oracles(TypeAt(agent.nodes,
                                  pre_input(agent.nodes,
                                            resolve(agent.nodes, agent.start_node,
                                                    requests[i].row.current_node),
                                            requests[i].row.conversation_id).current_node_id)) :
           LET nodes == agent.nodes
               row == requests[i].row
               text == requests[i].text
               node_id == resolve(nodes, agent.start_node, row.current_node)
               st == send_message_turn(nodes, node_id, row.conversation_id, text, o)
           IN  IF st.failed
               THEN /\ requests' = [requests EXCEPT ![i].status = 500,
                                                      ![i].commit_at = turns + 1]
                    /\ last' = Failure("send_message", 1, 500, text, node_id,
                                        row.current_node, st)
                    /\ UNCHANGED <<sessions, messages>>
               ELSE /\ sessions' = [sessions EXCEPT ![1] = Flushed(@, row, st)]
                    /\ messages' = [messages EXCEPT
                                       ![1] = (@ \o <<UserMsg(text)>>) \o st.messages]
                    /\ requests' = [requests EXCEPT
                                       ![i].status = 200,
                                       ![i].next_node = st.current_node_id,
                                       ![i].commit_at = turns + 1,
                                       ![i].messages = <<UserMsg(text)>> \o st.messages]
                    /\ last' = Response("send_message", 1, text, node_id,
                                         row.current_node, st)
      /\ turns' = turns + 1
      /\ UNCHANGED <<agent, node_output, call, knowledge>>

RaceNext == receive_message \/ complete_message

RaceSpec == RaceInit /\ [][RaceNext]_vars

----------------------------------------------------------------------------
(* Properties of a turn *)

Valid(nodes, id) == Truthy(id) /\ InNodes(nodes, id)

IsForced(nodes, id) == Valid(nodes, id) /\ Node(nodes, id).type = "forced_message"

\* the node reached from id by n hops along next, through forced_message
\* nodes only; None when the walk leaves them
RECURSIVE ForcedHop(_, _, _)
ForcedHop(nodes, id, n) ==
    IF ~IsForced(nodes, id) THEN None
    ELSE IF n = 0 THEN id
    ELSE ForcedHop(nodes, Node(nodes, id).next, n - 1)

OnForcedCycle(nodes, id) ==
    IsForced(nodes, id) /\ \E n \in 1..Len(nodes) : ForcedHop(nodes, id, n) = id

\* the ids of a chain of forced_message nodes that starts at id and ends on
\* a node whose next is None; <<>> when there is no such chain of at most n nodes
RECURSIVE ForcedChainTo(_, _, _)
ForcedChainTo(nodes, id, n) ==
    IF n = 0 \/ ~IsForced(nodes, id) THEN <<>>
    ELSE IF Node(nodes, id).next = None THEN <<id>>
    ELSE LET rest == ForcedChainTo(nodes, Node(nodes, id).next, n - 1)
         IN  IF rest = <<>> THEN <<>> ELSE <<id>> \o rest

\* the last n rows of a session's message log
LastRows(sid, n) == SubSeq(messages[sid], Len(messages[sid]) - n + 1, Len(messages[sid]))

AllAgent(rows) == \A i \in 1..Len(rows) : rows[i].sender = "agent"

\* C1: a turn (create_session or send_message) that starts on a node lying on
\* a cycle made only of forced_message nodes processes exactly 10
\* forced_message nodes, produces exactly 10 agent replies and ends, the
\* session cursor being the next_node the 10th processed node returned.
C1_ChainBound ==
    (/\ last.op \in {"create_session", "send_message"}
     /\ OnForcedCycle(agent.nodes, last.start))
    => /\ last.status = 200
       /\ Len(last.calls) = 10
       /\ \A i \in 1..Len(last.calls) : last.calls[i].type = "forced_message"
       /\ Len(last.replies) = 10
       /\ Len(messages[last.sid]) >= 10
       /\ AllAgent(LastRows(last.sid, 10))
       /\ Texts(LastRows(last.sid, 10)) = last.replies
       /\ sessions[last.sid].current_node = last.calls[10].next_node
       /\ last.next_node = last.calls[10].next_node

C1_Witness ==
    /\ last.op = "send_message"
    /\ OnForcedCycle(agent.nodes, last.start)
    /\ Len(agent.nodes) > 10
    /\ Len(last.replies) = 10
    /\ last.before = "f11"
    /\ sessions[last.sid].current_node = "f10"

\* W: wait_for_user_input with next F, F: forced_message whose text holds
\* {user_text}, with next W
HasUserText(t) ==
    \E i \in 1..(Len(t) - 2) : t[i] = "{" /\ t[i + 1] = "user_text" /\ t[i + 2] = "}"

WaitEcho(nodes, w) ==
    /\ Valid(nodes, w)
    /\ Node(nodes, w).type = "wait_for_user_input"
    /\ IsForced(nodes, Node(nodes, w).next)
    /\ Node(nodes, Node(nodes, w).next).next = w
    /\ HasUserText(Node(nodes, Node(nodes, w).next).forced_text)

\* C2: with the cursor on W of a W -> F -> W loop, send_message with text t
\* yields exactly one agent reply, F's template with {user_text} replaced by
\* t, and the cursor is W again.
C2_EchoTurn ==
    (/\ last.op = "send_message"
     /\ WaitEcho(agent.nodes, last.before))
    => /\ last.status = 200
       /\ last.replies =
            << safe_format(Node(agent.nodes, Node(agent.nodes, last.before).next).forced_text,
                           UserInput(last.text)) >>
       /\ sessions[last.sid].current_node = last.before

\* C3: creating a session on a graph whose start node is the forced_message
\* "Hi {name}" followed by a wait_for_user_input node W yields exactly one
\* agent reply, "Hi <missing:name>", does not process W and leaves the cursor on W.
GreetThenWait(a) ==
    /\ IsForced(a.nodes, a.start_node)
    /\ Node(a.nodes, a.start_node).forced_text = HiName
    /\ Valid(a.nodes, Node(a.nodes, a.start_node).next)
    /\ Node(a.nodes, Node(a.nodes, a.start_node).next).type = "wait_for_user_input"

C3_Greeting ==
    (last.op = "create_session" /\ GreetThenWait(agent))
    => /\ last.status = 200
       /\ last.replies = << "Hi <missing:name>" >>
       /\ last.reply = "Hi <missing:name>"
       /\ Len(last.calls) = 1
       /\ last.calls[1].node = agent.start_node
       /\ sessions[last.sid].current_node = Node(agent.nodes, agent.start_node).next
       /\ messages[last.sid] =
            << [sender |-> "agent", text |-> "Hi <missing:name>", action |-> NoAction] >>

C3_Witness ==
    /\ last.op = "create_session"
    /\ GreetThenWait(agent)
    /\ sessions[last.sid].current_node = "wait"

\* C4: session creation on a chain of k forced_message nodes (1 <= k <= 10)
\* whose last node has next = null produces exactly k agent replies, in chain
\* order, no user record, and ends with current_node = null.
ChainOf(a) == ForcedChainTo(a.nodes, a.start_node, max_forced_chain)

C4_ChainToNull ==
    (last.op = "create_session" /\ ChainOf(agent) # <<>>)
    => LET chain == ChainOf(agent)
       IN  /\ last.status = 200
           /\ Len(last.replies) = Len(chain)
           /\ \A i \in 1..Len(chain) :
                /\ last.calls[i].node = chain[i]
                /\ last.replies[i] =
                     safe_format(forced_template(Node(agent.nodes, chain[i])), UserInput(""))
                /\ messages[last.sid][i].text = last.replies[i]
           /\ Len(messages[last.sid]) = Len(chain)
           /\ AllAgent(messages[last.sid])
           /\ sessions[last.sid].current_node = None

C4_Witness ==
    /\ last.op = "create_session"
    /\ Len(ChainOf(agent)) = 10
    /\ last.replies[1] = "m1"
    /\ last.replies[10] = "m10"
    /\ sessions[last.sid].current_node = None

\* C5: in every entry point, when a processed node returns a next_node that is
\* non-null but names no node of the graph, the persisted current_node is not
\* set to that id: it keeps the value it had before that node's transition.
Dangling(nodes, id) == Truthy(id) /\ ~InNodes(nodes, id)

C5_DanglingNotAdopted ==
    \A i \in 1..Len(last.calls) :
        (/\ last.status = 200
         /\ last.calls[i].kind = "result"
         /\ Dangling(agent.nodes, last.calls[i].next_node))
        => /\ sessions[last.sid].current_node # last.calls[i].next_node
           /\ sessions[last.sid].current_node = last.calls[i].before

\* C6: webhook parameter extraction discards a JSON value that is null, and
\* the missing parameters are exactly the dynamic parameter names for which the
\* reply gave no non-null value: all of them when the reply is no JSON object.
DynamicNames(params) == { params[i].name : i \in { j \in 1..Len(params) : IsDynamic(params[j]) } }

Given(reply, name) ==
    /\ reply.kind = "object"
    /\ name \in DOMAIN reply.obj
    /\ reply.obj[name] # JNull

Reported(result) ==
    { result.action.missing_params[i] : i \in 1..Len(result.action.missing_params) }

C6_MissingParams ==
    (/\ call.cls \in {"WebhookNode", "process_node"}
     /\ call.node.type = "webhook"
     /\ call.result.kind = "result")
    => /\ Reported(call.result) =
            { n \in DynamicNames(call.node.params) : ~Given(call.llm.reply, n) }
       /\ (Reported(call.result) # {}) = (call.result.hook_calls = 0)

C6_Witness ==
    /\ call.cls = "process_node"
    /\ call.node.params = << Param("a", None), Param("b", None) >>
    /\ call.llm.raises = FALSE
    /\ call.llm.reply.kind = "object"
    /\ DOMAIN call.llm.reply.obj = {"a", "b"}
    /\ call.llm.reply.obj["a"] = JNull
    /\ call.llm.reply.obj["b"] # JNull
    /\ call.result.action.missing_params = <<"a">>

\* C7: when parameters are missing, the webhook node returns its own id as
\* next_node with reply = missing_param_message and action = {name,
\* missing_params}; the session cursor stays on the webhook node, and a
\* following user turn processes the same node again.
MissingCall(c) == c.type = "webhook" /\ c.kind = "result" /\ c.action.missing_params # <<>>

C7_MissingStaysPut ==
    /\ \A i \in 1..Len(last.calls) :
         MissingCall(last.calls[i])
         => LET c == last.calls[i]
                node == Node(agent.nodes, c.node)
            IN  /\ c.next_node = c.node
                /\ c.action.name = node.action
                /\ Truthy(node.missing_param_message) => c.reply = node.missing_param_message
                /\ c.reply # ""
                /\ last.status = 200
                /\ last.replies[i] = c.reply
                /\ i = Len(last.calls)
                /\ sessions[last.sid].current_node = c.node
                /\ last.next_node = c.node
    /\ (last.op = "send_message" /\ TypeAt(agent.nodes, last.before) = "webhook")
       => /\ Len(last.calls) >= 1
          /\ last.calls[1].node = last.before
          /\ last.calls[1].user_text = last.text

C7_Witness ==
    /\ last.op = "send_message"
    /\ last.before = "a"
    /\ MissingCall(last.calls[1])
    /\ last.reply = "Need more"
    /\ Len(messages[last.sid]) = 4
    /\ messages[last.sid][2].action.missing_params # <<>>
    /\ messages[last.sid][4].action.missing_params # <<>>
    /\ sessions[last.sid].current_node = "a"

\* C8: a conditional_llm node with n branches goes to branches[k-1].next_node
\* exactly when the LLM reply parses as an integer k with 1 <= k <= n; any
\* other number, any non-numeric reply and a failed LLM call go to default_branch.
Chosen(c) ==
    /\ ~c.llm.raises
    /\ c.llm.reply.kind = "text"
    /\ IsInt(c.llm.reply.chars)
    /\ IntOf(c.llm.reply.chars) \in 1..Len(c.node.branches)

C8_BranchChoice ==
    (/\ call.cls \in {"ConditionalLLMNode", "process_node"}
     /\ call.node.type = "conditional_llm"
     /\ Len(call.node.branches) >= 1)
    => /\ call.result.kind = "result"
       /\ Chosen(call) =>
            call.result.next_node = call.node.branches[IntOf(call.llm.reply.chars)].next_node
       /\ ~Chosen(call) => call.result.next_node = call.node.default_branch

C8_Witness ==
    /\ call.cls = "ConditionalLLMNode"
    /\ Len(call.node.branches) = 2
    /\ call.llm.raises = FALSE
    /\ call.llm.reply = TextReply(<<" ", "2">>)
    /\ call.result.next_node = "t2"

\* C9: after a turn in which a wait_for_user_input node is processed with the
\* user input u, the session row holds u as last_user_input for the next turn.
C9_LastInputKept ==
    \A i \in 1..Len(last.calls) :
        (last.op = "send_message" /\ last.calls[i].type = "wait_for_user_input")
        => /\ last.status = 200
           /\ sessions[last.sid].last_user_input = UserInput(last.calls[i].user_text)

\* C10: WaitForUserInputNode.process returns reply "", save_last_user_input
\* equal to the user_input it was given, next_node equal to the node's next
\* and the conversation_id it was given, and calls no LLM, webhook, knowledge
\* base or output store.
C10_WaitResult ==
    call.cls = "WaitForUserInputNode"
    => /\ call.result.kind = "result"
       /\ call.result.reply = ""
       /\ call.result.save_last_user_input = call.user_input
       /\ call.result.next_node = call.node.next
       /\ call.result.conversation_id = call.conversation_id
       /\ call.result.llm_calls = 0
       /\ call.result.hook_calls = 0
       /\ call.result.kb_calls = 0
       /\ call.result.saved = <<>>
       /\ node_output = <<>>

C10_Witness ==
    /\ call.cls = "WaitForUserInputNode"
    /\ call.user_input = UserInput("bye")
    /\ call.last_user_input = UserInput("hello")
    /\ call.conversation_id = "c7"
    /\ call.node.next = "ghost"
    /\ call.result.save_last_user_input = UserInput("bye")

\* C11: a turn starts on session.current_node when that names a node of the
\* graph, otherwise on start_node when that names a node, otherwise on an
\* existing node; on a graph with at least one node send_message always finds
\* a node and does not fail at resolution, whatever the persisted cursor is.
C11_Resolution ==
    (last.op \in {"send_message", "trigger_forced"} /\ agent.nodes # <<>>)
    => /\ InNodes(agent.nodes, last.start)
       /\ Valid(agent.nodes, last.before) => last.start = last.before
       /\ (~Valid(agent.nodes, last.before) /\ Valid(agent.nodes, agent.start_node))
          => last.start = agent.start_node
       /\ last.op = "send_message"
          => /\ last.status # 400
             /\ Len(last.calls) >= 1
             /\ last.calls[1].node = last.start

C11_Witness ==
    /\ last.op = "send_message"
    /\ last.before = None
    /\ agent.start_node = "ghost"
    /\ last.start = "a"
    /\ last.status = 200

\* C12: send_message on an agent whose graph has no nodes fails with a
\* configuration error and leaves the session as it was: current_node,
\* conversation_id and the message log, the inbound message included.
C12_NoNodes ==
    [][(agent.nodes = <<>> /\ last'.op = "send_message")
       => /\ last'.status = 400
          /\ last'.calls = <<>>
          /\ sessions' = sessions
          /\ messages' = messages]_vars

C12_Witness ==
    /\ agent.nodes = <<>>
    /\ last.op = "send_message"
    /\ last.status = 400
    /\ messages[last.sid] = <<>>
    /\ sessions[last.sid] = NewSession

\* C13: with every parameter resolved the webhook node routes by the outcome
\* of its one webhook call: a successful call goes to on_success; a transport
\* error or a non-2xx response gives an error reply and goes to on_failure;
\* the failure never leaves the node's process.
Succeeded(hook) == ~hook.raises /\ hook.status \in 200..299

C13_WebhookRouting ==
    (/\ call.cls \in {"WebhookNode", "process_node"}
     /\ call.node.type = "webhook"
     /\ call.result.hook_calls = 1)
    => /\ call.result.kind = "result"
       /\ Succeeded(call.hook) => call.result.next_node = call.node.on_success
       /\ ~Succeeded(call.hook) => call.result.next_node = call.node.on_failure

\* C14: an exception raised by the LLM while a node is processed (parameter
\* extraction of a webhook node, selection of a conditional_llm node) is caught
\* inside the node and becomes a reply or a branch transition: it never
\* leaves process.
C14_LLMFailureContained ==
    (/\ call.cls # "none"
     /\ call.llm.raises
     /\ call.result.llm_calls >= 1)
    => call.result.kind = "result"

\* C15: a turn wraps each node invocation: when processing a node raises, or
\* yields no result, the turn still completes, with a generic error reply and
\* next_node = null, and what the turn applied before is persisted.
C15_TurnSurvivesNode ==
    \A i \in 1..Len(last.calls) :
        last.calls[i].kind # "result"
        => /\ last.status = 200
           /\ last.next_node = None
           /\ Len(last.replies) = i
           /\ sessions[last.sid].current_node = None

\* C16: the response follows the number of replies of the turn: one reply is
\* the reply and the one element of messages; several replies are messages in
\* production order, with reply "" in create_session and send_message and
\* the newline-joined texts in trigger_forced_messages; no reply gives the
\* placeholder "No response generated".
RECURSIVE JoinLines(_)
JoinLines(texts) ==
    IF texts = <<>> THEN ""
    ELSE IF Len(texts) = 1 THEN texts[1]
    ELSE texts[1] \o "\n" \o JoinLines(Tail(texts))

C16_ResponseShape ==
    last.status = 200
    => /\ Len(last.replies) = 1 => (last.reply = last.replies[1] /\ last.has_messages)
       /\ Len(last.replies) > 1
          => /\ last.has_messages
             /\ last.replies = [i \in 1..Len(last.calls) |-> last.calls[i].reply]
             /\ last.reply = IF last.op = "trigger_forced" THEN JoinLines(last.replies) ELSE ""
       /\ Len(last.replies) = 0 => last.reply = "No response generated"

\* C16, amended: as above, except that create_session on a start node that
\* is no forced_message produces no reply and answers reply "" with no
\* messages list; the placeholder is the answer of send_message.
C16_ResponseShapeAmended ==
    last.status = 200
    => /\ Len(last.replies) = 1 => (last.reply = last.replies[1] /\ last.has_messages)
       /\ Len(last.replies) > 1
          => /\ last.has_messages
             /\ last.replies = [i \in 1..Len(last.calls) |-> last.calls[i].reply]
             /\ last.reply = IF last.op = "trigger_forced" THEN JoinLines(last.replies) ELSE ""
       /\ Len(last.replies) = 0
          => /\ ~last.has_messages
             /\ last.reply = IF last.op = "create_session" THEN "" ELSE "No response generated"
             /\ last.op = "create_session" => ~IsForced(agent.nodes, agent.start_node)

C16_Witness ==
    /\ last.op = "trigger_forced"
    /\ last.status = 200
    /\ last.replies = <<"m1", "m2">>
    /\ last.reply = "m1\nm2"

\* C17: only the six declared type tags are processed; a node of any other
\* type makes the turn that reaches it fail: it is never processed as if it
\* were known, and never skipped.
NodeTypes ==
    {"wait_for_user_input", "forced_message", "webhook", "conditional_llm", "knowledge",
     "llm_request"}

C17_UnknownTypeFails ==
    \A i \in 1..Len(last.calls) :
        last.calls[i].type \notin NodeTypes
        => /\ last.status # 200
           /\ last.calls[i].kind # "result"

\* C18: safe_format resolves a placeholder path segment by segment: a segment
\* absent from the current mapping gives "<missing:segment>", a segment applied
\* to a value that is no mapping gives "<invalid:segment>" and ends the
\* descent, and the resolved value is inserted as it is, without a second
\* scan for placeholders; the text before the placeholder is kept.
IsName(tok) == tok \notin Braces \cup Separators

Plain(toks) == \A i \in 1..Len(toks) : toks[i] \notin Braces

\* {k}
OneSegment(ctx, k) ==
    IF k \in DOMAIN ctx.d THEN Str(ctx.d[k]) ELSE "<missing:" \o k \o ">"

\* {k.s}
TwoSegments(ctx, k, s) ==
    IF k \in DOMAIN ctx.d /\ ctx.d[k].kind = "dict"
    THEN OneSegment(ctx.d[k], s)
    ELSE "<invalid:" \o s \o ">"

C18_Placeholders ==
    call.cls = "safe_format"
    => LET t == call.node.text
           ctx == call.user_input
           out == call.result.reply
       IN  \A n \in 0..Len(t) :
             LET pre == SubSeq(t, 1, n)
                 rest == SubSeq(t, n + 1, Len(t))
             IN  /\ (/\ Plain(pre) /\ Len(rest) = 3
                     /\ rest[1] = "{" /\ IsName(rest[2]) /\ rest[3] = "}")
                    => out = Join(pre) \o OneSegment(ctx, rest[2])
                 /\ (/\ Plain(pre) /\ Len(rest) = 5
                     /\ rest[1] = "{" /\ IsName(rest[2]) /\ rest[3] = "."
                     /\ IsName(rest[4]) /\ rest[5] = "}")
                    => out = Join(pre) \o TwoSegments(ctx, rest[2], rest[4])

C18_Witness ==
    /\ call.cls = "safe_format"
    /\ call.node.text = <<"{", "user_text", ".", "name", "}">>
    /\ call.user_input = UserInput("hello")
    /\ call.result.reply = "<invalid:name>"

\* C19: a template that holds no placeholder comes back unchanged, whatever
\* the context.
HasPlaceholder(t) ==
    \E i \in 1..Len(t), j \in 1..Len(t) :
        /\ i + 1 < j
        /\ t[i] = "{"
        /\ t[j] = "}"
        /\ Plain(SubSeq(t, i + 1, j - 1))

C19_NoPlaceholder ==
    (call.cls = "safe_format" /\ ~HasPlaceholder(call.node.text))
    => call.result.reply = Join(call.node.text)

C19_Witness ==
    /\ call.cls = "safe_format"
    /\ call.node.text = <<"{", "}", "name", "}">>
    /\ call.user_input = UserInput("hello")
    /\ call.result.reply = "{}name}"

\* C20: after any sequence of add_source / add_document / add_url / add_audio /
\* _create_or_update_knowledge_node calls there is at most one KnowledgeNode
\* row per (agent_id, node_id); a call for a pair that exists updates that row
\* in place: same id, the call's name, source_type, source_data and
\* extractor_metadata, and no second row.
OneRowPerKey(rows) ==
    \A i, j \in 1..Len(rows) :
        (rows[i].agent_id = rows[j].agent_id /\ rows[i].node_id = rows[j].node_id) => i = j

C20_OneKnowledgeNode ==
    [][/\ OneRowPerKey(knowledge'.nodes)
       /\ Len(knowledge'.nodes) >= Len(knowledge.nodes)
       /\ \A i \in 1..Len(knowledge.nodes) :
            LET old == knowledge.nodes[i]
                new == knowledge'.nodes[i]
                c == knowledge'.call
            IN  /\ new.id = old.id
                /\ new.agent_id = old.agent_id
                /\ new.node_id = old.node_id
                /\ (old.agent_id = c.agent_id /\ old.node_id = c.node_id)
                   => /\ Len(knowledge'.nodes) = Len(knowledge.nodes)
                      /\ c.write.written
                         => /\ new.name = c.source_name
                            /\ new.source_type = c.write.source_type
                            /\ new.source_data = c.write.source_data
                            /\ new.extractor_metadata = c.write.extractor_metadata
                      /\ ~c.write.written => new = old
                /\ (old.agent_id # c.agent_id \/ old.node_id # c.node_id) => new = old
      ]_vars

C20_Witness ==
    /\ knowledge.call.op = "add_url"
    /\ ~knowledge.call.raised
    /\ Len(knowledge.nodes) = 1
    /\ knowledge.nodes[1].id = 1
    /\ knowledge.nodes[1].name = "http://u2"
    /\ knowledge.nodes[1].source_type = "web"
    /\ knowledge.nodes[1].source_data = PyDict([url |-> "http://u2", upload_type |-> "url"])
    /\ knowledge.embeddings = << KnowledgeEmbedding(1, 0, "c") >>
    /\ turns = 2

----------------------------------------------------------------------------
(* The turn as a whole *)

ForcedCalls(calls) == { i \in 1..Len(calls) : calls[i].type = "forced_message" }
OtherCalls(calls) == { i \in 1..Len(calls) : calls[i].type # "forced_message" }

\* C21: the two forced-message loops of a send_message turn share one
\* counter: the turn processes at most 10 forced_message nodes and at most
\* one other node, 11 nodes at most, on every graph, cyclic ones included
C21_SharedCounter ==
    last.op = "send_message"
    => /\ Cardinality(ForcedCalls(last.calls)) <= max_forced_chain
       /\ Cardinality(OtherCalls(last.calls)) <= 1
       /\ Len(last.calls) <= max_forced_chain + 1

\* a turn of 11 nodes with forced messages before and after the knowledge node
C21_Witness ==
    /\ last.op = "send_message"
    /\ last.status = 200
    /\ Len(last.calls) = max_forced_chain + 1
    /\ \E j \in 2..max_forced_chain :
         /\ last.calls[j].type = "knowledge"
         /\ last.calls[j - 1].type = "forced_message"
         /\ last.calls[j + 1].type = "forced_message"
    /\ last.next_node = "g"

Automatic == {"webhook", "conditional_llm", "knowledge", "llm_request", "forced_message"}

Processed(calls, id) == \E i \in 1..Len(calls) : calls[i].node = id

Exhausted(calls) == Cardinality(ForcedCalls(calls)) >= max_forced_chain

\* C22 (as stated): a send_message turn that did not exhaust the chain bound
\* never leaves the cursor on an automatic node (webhook, conditional_llm,
\* knowledge, llm_request, forced_message) that the turn has not processed
C22_AutoAdvance ==
    (last.op = "send_message" /\ ~Exhausted(last.calls))
    => LET cursor == sessions[last.sid].current_node
       IN  ~(TypeAt(agent.nodes, cursor) \in Automatic /\ ~Processed(last.calls, cursor))

\* C22 (amended): a send_message turn advances through forced_message nodes
\* only, around the one other node it processes: a turn that did not exhaust
\* the chain bound never leaves the cursor on a forced_message node that the
\* turn has not processed, and a turn that answered leaves it on a node that
\* is no forced_message, on null or on an id that names no node
C22_ForcedAdvance ==
    (last.op = "send_message" /\ ~Exhausted(last.calls))
    => LET cursor == sessions[last.sid].current_node
       IN  /\ ~(TypeAt(agent.nodes, cursor) = "forced_message"
                /\ ~Processed(last.calls, cursor))
           /\ last.status = 200
              => /\ cursor = last.next_node
                 /\ TypeAt(agent.nodes, cursor) # "forced_message"

\* a turn that took the user input on one node, ran the forced message after
\* it and stopped, below the bound, on an automatic node it had processed
C22_Witness ==
    /\ last.op = "send_message"
    /\ last.status = 200
    /\ Len(last.calls) = 2
    /\ last.calls[1].type = "knowledge"
    /\ last.calls[2].type = "forced_message"
    /\ sessions[last.sid].current_node = last.calls[1].node

\* C23: a send_message turn processes at most one node that is not a
\* forced_message; that node alone receives the user's text, and every
\* forced_message node of the turn receives the empty input
C23_OneInputNode ==
    last.op = "send_message"
    => /\ Cardinality(OtherCalls(last.calls)) <= 1
       /\ \A i \in ForcedCalls(last.calls) : last.calls[i].user_text = ""
       /\ \A i \in OtherCalls(last.calls) :
            /\ last.calls[i].user_text = last.text
            /\ last.calls[i].user_text # ""

\* a webhook node took "bye" between two forced messages that took nothing
C23_Witness ==
    /\ last.op = "send_message"
    /\ last.status = 200
    /\ last.text = "bye"
    /\ \E i \in OtherCalls(last.calls) :
         /\ last.calls[i].type = "webhook"
         /\ i < Len(last.calls)
         /\ last.calls[i + 1].type = "forced_message"
         /\ last.calls[i + 1].reply = "You said: "

\* C24: a reply enters the turn's reply list and the message log only when it
\* is non-empty: no turn produces the reply "", and no agent row of the log
\* has an empty text
C24_NoEmptyReplies ==
    /\ \A i \in 1..Len(last.replies) : last.replies[i] # ""
    /\ \A sid \in 1..Len(messages) : \A i \in 1..Len(messages[sid]) :
         messages[sid][i].sender = "agent" => messages[sid][i].text # ""

----------------------------------------------------------------------------
(* Properties of the node types *)

\* C30: a conditional_llm node with at least one branch returns an empty
\* reply, and when the LLM call raises it returns next_node = default_branch
\* with an empty reply and raises nothing
C30_SilentSelection ==
    (call.cls \in {"ConditionalLLMNode", "process_node"}
       /\ call.node.type = "conditional_llm" /\ call.node.branches # <<>>)
    => /\ call.result.kind = "result"
       /\ call.result.reply = ""
       /\ call.llm.raises => call.result.next_node = call.node.default_branch

\* the table as the last call found it
StoreBefore == SubSeq(node_output, 1, Len(node_output) - Len(call.result.saved))

ForcedCall ==
    call.cls \in {"ForcedMessageNode", "process_node"} /\ call.node.type = "forced_message"

\* C25: a forced_message with reference_node_id replies with the output_text
\* of the latest record of that node id, verbatim; without such a record the
\* reply is a diagnostic text naming the reference; next_node is the node's
\* next in both cases
C25_ReferenceReply ==
    (ForcedCall /\ Truthy(call.node.reference_node_id))
    => LET ref == call.node.reference_node_id
           i == most_recent_output(StoreBefore, ref)
       IN  /\ call.result.kind = "result"
           /\ call.result.next_node = call.node.next
           /\ i # 0 => call.result.reply = StoreBefore[i].output_text
           /\ i = 0 => call.result.reply \in
                          { "Error: No result found for node " \o ref,
                            "Error: Could not retrieve result from node " \o ref
                               \o ": node_id" }

\* the mapping a forced message formats against: last_user_input if present,
\* else user_input, else the empty mapping
ContextOf(c) ==
    IF c.last_user_input.kind # "none" THEN c.last_user_input
    ELSE IF c.user_input.kind # "none" THEN c.user_input
    ELSE PyDict(<<>>)

\* C26: a forced_message without reference_node_id replies with the formatter
\* applied to forced_text, or to text when forced_text is absent or null,
\* against the context, an empty or absent context included; next_node is
\* the node's next
C26_TemplateReply ==
    (ForcedCall /\ ~Truthy(call.node.reference_node_id))
    => LET template == IF call.node.forced_text \in {AbsentKey, NullText}
                       THEN call.node.text ELSE call.node.forced_text
       IN  /\ call.result.kind = "result"
           /\ call.result.reply = safe_format(template, ContextOf(call))
           /\ call.result.next_node = call.node.next

\* texts only another agent has stored
ForeignTexts(store, agent_id) ==
    { store[i].output_text : i \in { j \in 1..Len(store) : store[j].agent_id # agent_id } }
    \ { store[i].output_text : i \in { j \in 1..Len(store) : store[j].agent_id = agent_id } }

\* C27: reads of the node_output table are scoped to (agent_id, node_id): a
\* forced_message reference and an llm_request context lookup made for one
\* agent never return a record appended under another agent
C27_AgentScoped ==
    call.cls \in {"ForcedMessageNode", "LLMRequestNode"}
    => /\ call.result.reply \notin ForeignTexts(StoreBefore, call.agent_id)
       /\ \A k \in 1..Len(call.result.context) :
            call.result.context[k] \notin ForeignTexts(StoreBefore, call.agent_id)

\* C28: the node_output table only grows at its end, and every
\* WebhookNode.process that reaches an outcome (missing parameters, success,
\* failure) appends exactly one record under its own agent and node id
C28_AppendOnly ==
    [][/\ Len(node_output') >= Len(node_output)
       /\ SubSeq(node_output', 1, Len(node_output)) = node_output
       /\ (call'.cls = "WebhookNode" /\ call'.result.kind = "result")
          => /\ Len(node_output') = Len(node_output) + 1
             /\ node_output'[Len(node_output')].node_id = call'.node.id
             /\ node_output'[Len(node_output')].agent_id = call'.agent_id
      ]_vars

\* C29: an llm_request node returns reply "" and next_node = its next whether
\* the LLM answers or raises, and appends the LLM's reply, or the error text,
\* under its own id
C29_LLMRequestSilent ==
    (call.cls \in {"LLMRequestNode", "process_node"} /\ call.node.type = "llm_request")
    => /\ call.result.kind = "result"
       /\ call.result.reply = ""
       /\ call.result.next_node = call.node.next
       /\ Len(call.result.saved) = 1
       /\ call.result.saved[1].node_id = call.node.id
       /\ call.result.saved[1].output_text =
              IF call.llm.raises THEN "Error processing LLM request: llm"
              ELSE Join(call.llm.reply.chars)

\* C31: one process call of a webhook node calls the LLM at most once and the
\* webhook at most once; it does not call the webhook when a parameter is
\* missing, and does not call the LLM when the node has no dynamic parameter
C31_NoRetry ==
    (call.cls \in {"WebhookNode", "process_node"} /\ call.node.type = "webhook")
    => LET dynamic == DynamicNames(call.node.params)
           absent == { n \in dynamic : ~Given(call.llm.reply, n) }
       IN  /\ call.result.llm_calls <= 1
           /\ call.result.hook_calls <= 1
           /\ absent # {} => call.result.hook_calls = 0
           /\ dynamic = {} => call.result.llm_calls = 0

\* a node with one fixed parameter and no dynamic one called its webhook
\* without asking the LLM
C31_Witness ==
    /\ call.cls = "WebhookNode"
    /\ call.node.params = << Param("b", "7") >>
    /\ call.result.llm_calls = 0
    /\ call.result.hook_calls = 1
    /\ call.result.next_node = call.node.on_success

----------------------------------------------------------------------------
(* The session row and the message log across turns *)

\* the conversation id of the last result of a turn that carried one
RECURSIVE LastAdopted(_, _)
LastAdopted(calls, previous) ==
    IF calls = <<>> THEN previous
    ELSE LET c == calls[Len(calls)]
         IN  IF c.kind = "result" /\ c.conversation_id # None THEN c.conversation_id
             ELSE LastAdopted(SubSeq(calls, 1, Len(calls) - 1), previous)

Previous(sid) == IF sid <= Len(sessions) THEN sessions[sid] ELSE NewSession

\* C32: after a turn that reached its commit the session's conversation_id is
\* the last non-null id a node result of the turn carried, or its previous
\* value when there was none; a request that ended in an error leaves it as it
\* was; a conversation_id that is not null is never reset to null
C32_ConversationId ==
    [][ /\ last'.status = 200
            => sessions'[last'.sid].conversation_id
                = LastAdopted(last'.calls, Previous(last'.sid).conversation_id)
        /\ last'.status # 200
            => sessions'[last'.sid].conversation_id = Previous(last'.sid).conversation_id
        /\ \A sid \in 1..Len(sessions) :
              sessions[sid].conversation_id # None => sessions'[sid].conversation_id # None
      ]_vars

\* a turn took the id of the LLM's conversation into a session that had none
C32_Witness ==
    /\ last.op = "send_message"
    /\ last.status = 200
    /\ last.calls # <<>>
    /\ last.calls[1].kind = "result"
    /\ last.calls[1].conversation_id = "local-memory"
    /\ sessions[last.sid].conversation_id = "local-memory"

PreviousLog(sid) == IF sid <= Len(messages) THEN messages[sid] ELSE <<>>

\* the records a step added to the log of session sid
Appended(sid) == SubSeq(messages'[sid], Len(PreviousLog(sid)) + 1, Len(messages'[sid]))

\* the agent records of the results a turn obtained, in the order of the calls
Produced(calls) ==
    [i \in 1..Len(calls) |->
        [sender |-> "agent", text |-> calls[i].reply, action |-> calls[i].action]]

\* C33: a completed send_message turn appends one user record with the inbound
\* text, then one agent record per reply in production order; no record of
\* the log is changed or removed; create_session and trigger_forced_messages
\* append agent records only
C33_MessageLog ==
    [][ /\ \A sid \in 1..Len(messages) :
              /\ Len(messages'[sid]) >= Len(messages[sid])
              /\ SubSeq(messages'[sid], 1, Len(messages[sid])) = messages[sid]
        /\ (last'.op = "send_message" /\ last'.status = 200)
            => Appended(last'.sid)
                = <<[sender |-> "user", text |-> last'.text, action |-> NoAction]>>
                  \o Produced(last'.calls)
        /\ (last'.op \in {"create_session", "trigger_forced"} /\ last'.status = 200)
            => Appended(last'.sid) = Produced(last'.calls)
        /\ last'.op \in {"create_session", "trigger_forced"}
            => \A i \in 1..Len(Appended(last'.sid)) :
                  Appended(last'.sid)[i].sender = "agent"
      ]_vars

\* the second turn of a session added a user record and two agent records
\* behind the records of the turns before
C33_Witness ==
    /\ last.op = "send_message"
    /\ last.status = 200
    /\ Len(last.calls) >= 2
    /\ Len(messages[last.sid]) > 1 + Len(last.calls)
    /\ \E i \in 1..Len(messages[last.sid]) :
          /\ messages[last.sid][i].sender = "user"
          /\ messages[last.sid][i].text = last.text
          /\ i + Len(last.calls) = Len(messages[last.sid])
          /\ \A j \in (i + 1)..Len(messages[last.sid]) :
                messages[last.sid][j].sender = "agent"

----------------------------------------------------------------------------
(* Requests on one session that overlap *)

Contains(log, part) ==
    \E k \in 0..(Len(log) - Len(part)) : SubSeq(log, k + 1, k + Len(part)) = part

\* requests i and j both loaded the row before either committed, i committed
\* first and j last, and no other request committed since they loaded it
Raced(i, j) ==
    /\ i # j
    /\ requests[i].status = 200
    /\ requests[j].status = 200
    /\ requests[i].read_at < requests[i].commit_at
    /\ requests[j].read_at < requests[i].commit_at
    /\ requests[i].commit_at < requests[j].commit_at
    /\ \A k \in 1..Len(requests) :
          (k \notin {i, j} /\ requests[k].status = 200)
          => /\ requests[k].commit_at < requests[i].read_at
             /\ requests[k].commit_at < requests[j].read_at

\* C35: two send_message turns that both read the cursor before either
\* commits start from the same node; after both commit the stored
\* current_node is the final cursor of the turn that committed last, the log
\* holds the messages of both, and the stored cursor is one a turn computed
C35_LastWriteWins ==
    \A i, j \in 1..Len(requests) :
        Raced(i, j)
        => /\ requests[i].row.current_node = requests[j].row.current_node
           /\ sessions[1].current_node = requests[j].next_node
           /\ Contains(messages[1], requests[i].messages)
           /\ Contains(messages[1], requests[j].messages)
           /\ sessions[1].current_node \in {requests[i].next_node, requests[j].next_node}

----------------------------------------------------------------------------
(* The trigger-forced entry point *)

AutomaticTypes == {"webhook", "conditional_llm", "knowledge", "llm_request", "forced_message"}

\* C36: trigger_forced_messages started on a cursor that names an automatic
\* node of any type processes that node with empty user input instead of
\* rejecting the request
C36_TriggerAnyAutomatic ==
    (/\ last.op = "trigger_forced"
     /\ Valid(agent.nodes, last.start)
     /\ Node(agent.nodes, last.start).type \in AutomaticTypes)
    => /\ last.status # 400
       /\ last.calls # <<>>
       /\ last.calls[1].node = last.start
       /\ last.calls[1].user_text = ""

\* C36, as the endpoint behaves: it dispatches forced_message nodes only, at
\* most 10 and with empty user input, the first of them the node the cursor
\* resolves to; resolved to a node of any other type it answers 400,
\* dispatches nothing and changes neither the session rows nor the logs
C36_TriggerForcedOnly ==
    [][ last'.op = "trigger_forced"
        => /\ Len(last'.calls) <= max_forced_chain
           /\ \A i \in 1..Len(last'.calls) :
                 /\ last'.calls[i].type = "forced_message"
                 /\ last'.calls[i].user_text = ""
           /\ IsForced(agent.nodes, last'.start)
              => /\ last'.calls # <<>>
                 /\ last'.calls[1].node = last'.start
                 /\ last'.status # 400
           /\ (Valid(agent.nodes, last'.start) /\ ~IsForced(agent.nodes, last'.start))
              => /\ last'.status = 400
                 /\ last'.calls = <<>>
                 /\ sessions' = sessions
                 /\ messages' = messages
      ]_vars

\* the request was made on a session whose cursor resolves to a knowledge or
\* webhook node, and was rejected
C36_Witness ==
    /\ last.op = "trigger_forced"
    /\ Valid(agent.nodes, last.start)
    /\ Node(agent.nodes, last.start).type \in {"webhook", "knowledge"}
    /\ last.status = 400
    /\ last.calls = <<>>

----------------------------------------------------------------------------
(* The captured user input *)

\* C37: processing a webhook or conditional_llm node leaves the
\* last_user_input handed to it as it was, also after a successful webhook
\* call, and returns nothing to be saved in its place
C37_LastInputUntouched ==
    call.cls \in {"WebhookNode", "ConditionalLLMNode"}
    => /\ call.result.last_user_input = call.last_user_input
       /\ call.result.save_last_user_input = PyNone

====
